---- MODULE Spec2Model ----
(***************************************************************************)
(* PDF-Extractor: the extraction pipeline (src/core/pipeline.py), its      *)
(* result cache (src/core/cache.py) and the batch orchestrator             *)
(* (src/core/batch.py), as state machines.                                 *)
(*                                                                         *)
(* Spec       - NumCallers direct callers of run_extraction (the /extract  *)
(*              and /extract/upload endpoints) sharing one cache store.    *)
(* SpecBatch  - one process_batch_parallel call whose items run the same   *)
(*              pipeline steps in the executor.                            *)
(***************************************************************************)
EXTENDS Integers, Sequences, FiniteSets, TLC

VARIABLES
    settings,   \* src/config/settings.py: the Settings instance
    cache,      \* the Redis store: key -> entry, or NoEntry
    inv,        \* one run_extraction invocation per slot
    items,      \* process_batch_parallel: the items argument
    use_cache,  \* process_batch_parallel: the use_cache argument
    task,       \* process_with_semaphore task of every item
    semaphore,  \* asyncio.Semaphore(settings.max_concurrent_extractions)
    ready,      \* event loop: executor futures completed, not yet resumed
    done,       \* asyncio.as_completed: finished tasks, completion order
    gen,        \* the async generator: position and local counters
    out,        \* what the generator has yielded so far
    finish_order, \* history: the order in which the pipeline runs ended
    frame       \* one call of a function of the core: arguments and outcome

vars == <<settings, cache, inv, items, use_cache, task, semaphore, ready,
          done, gen, out, finish_order, frame>>

batchVars == <<items, use_cache, task, semaphore, ready, done, gen, out,
               finish_order>>

(***************************************************************************)
(* Bounds                                                                  *)
(***************************************************************************)
NumCallers == 2
MaxItems == 2
MaxK == 2

Callers == 0 .. NumCallers - 1
Slots == 0 .. (IF NumCallers > MaxItems THEN NumCallers ELSE MaxItems) - 1

(***************************************************************************)
(* Python values                                                           *)
(***************************************************************************)
PyNone == [t |-> "None"]
PyStr(s) == [t |-> "str", v |-> s]
PyBytes(b) == [t |-> "bytes", v |-> b]
PyInt(n) == [t |-> "int", v |-> n]

\* Python truthiness of an Optional[str] / Optional[bytes]
Truthy(x) == x.t # "None" /\ x.v # ""

Exception(type, msg) == [type |-> type, msg |-> msg]
NoException == [type |-> "", msg |-> ""]

\* no call under way
NoFrame == [pc |-> "none", fn |-> ""]

(***************************************************************************)
(* The world around the program: files, documents, inputs                  *)
(***************************************************************************)
Cwd == "/cwd"
BasePath == "/base"

\* absolute path -> file content
Disk == [p \in {"/cwd/a.pdf", "/base/b.pdf", "/data/empty.pdf"} |->
            CASE p = "/cwd/a.pdf" -> "%PDF-a"
              [] p = "/base/b.pdf" -> "%PDF-b"
              [] p = "/data/empty.pdf" -> "%PDF-empty"]

AbsolutePaths == {"/data/empty.pdf", "/data/gone.pdf"}

\* a word as page.extract_words() reports it, and a page
RawWord(text, x0, top, x1, bottom) ==
    [text |-> text, x0 |-> x0, top |-> top, x1 |-> x1, bottom |-> bottom]

Page(width, height, words, tables) ==
    [width |-> width, height |-> height, words |-> words, tables |-> tables]

Pdf(pages) == [parses |-> TRUE, pages |-> pages]

\* what pdfplumber sees in a file: its pages and their words, or a file it
\* cannot parse
PdfContent(pdf_bytes) ==
    CASE pdf_bytes = "%PDF-a" ->
            Pdf(<<Page(595, 842, <<RawWord("JOAO", 100, 50, 150, 70),
                                   RawWord("SILVA", 155, 52, 230, 72)>>, 0)>>)
      [] pdf_bytes = "%PDF-b" ->
            Pdf(<<Page(595, 842, <<RawWord("OAB", 250, 400, 350, 420)>>, 1),
                  Page(595, 842, <<RawWord("VERSO", 50, 50, 100, 70)>>, 0)>>)
      [] pdf_bytes = "%PDF-empty" -> Pdf(<<Page(595, 842, <<>>, 0)>>)
      [] OTHER -> [parses |-> FALSE, pages |-> <<>>]

Labels == {"oab"}

\* Dict[str, str] as an ordered list of (name, description) pairs
SchemaNome == << <<"nome", "Nome">> >>
SchemaTwo == << <<"nome", "Nome">>, <<"inscricao", "Numero">> >>
Schemas == {SchemaNome, SchemaTwo}

\* the same pairs as SchemaTwo, inserted in the other order
SchemaTwoReversed == << <<"inscricao", "Numero">>, <<"nome", "Nome">> >>

\* a schema with no field, and one whose field has the name of a keyword
\* parameter of pydantic.create_model
\* SchemaNome with another description, and with another field name
SchemaNomeFull == << <<"nome", "Nome completo">> >>
SchemaInscricao == << <<"inscricao", "Nome">> >>

SchemaEmpty == <<>>
SchemaReserved == << <<"__base__", "Base">> >>

\* lexicographic rank of the field names in use (Python string order)
KeyRank(name) ==
    CASE name = "__base__" -> 0 [] name = "inscricao" -> 1 [] name = "nome" -> 2
      [] OTHER -> 3

(***************************************************************************)
(* Request model (src/models/schema.py)                                    *)
(***************************************************************************)
ExtractionRequest(label, extraction_schema, pdf_path, pdf_bytes) ==
    [label |-> label, extraction_schema |-> extraction_schema,
     pdf_path |-> pdf_path, pdf_bytes |-> pdf_bytes]

NoRequest == ExtractionRequest("", <<>>, PyNone, PyNone)

\* ExtractionRequest.validate_pdf_source: the exception the constructor
\* raises, or NoException
validate_pdf_source(self) ==
    IF self.pdf_path = PyNone /\ self.pdf_bytes = PyNone
    THEN Exception("ValueError", "Either pdf_path or pdf_bytes must be provided.")
    ELSE IF self.pdf_path # PyNone /\ self.pdf_bytes # PyNone
    THEN Exception("ValueError", "Cannot provide both pdf_path and pdf_bytes. Use only one.")
    ELSE NoException

(***************************************************************************)
(* Fingerprints and path resolution (src/core/extractor.py)                *)
(***************************************************************************)
IsAbsolute(path) == path \in AbsolutePaths

Exists(path) == path \in DOMAIN Disk

resolve_pdf_path(pdf_path_str) ==
    IF IsAbsolute(pdf_path_str) THEN pdf_path_str
    ELSE LET resolved == Cwd \o "/" \o pdf_path_str
         IN IF Exists(resolved) THEN resolved
            ELSE IF Truthy(settings.pdf_base_path)
                 THEN settings.pdf_base_path.v \o "/" \o pdf_path_str
                 ELSE resolved

\* hashlib.sha256(...).hexdigest(), taken as collision-free
sha256(data) == "sha256<" \o data \o ">"

hash_pdf_bytes(pdf_bytes) == sha256(pdf_bytes)

\* insertion of one pair into a list sorted by key
InsertSorted(pair, sorted) ==
    LET RECURSIVE ins(_)
        ins(s) == IF s = <<>> THEN <<pair>>
                  ELSE IF KeyRank(pair[1]) < KeyRank(Head(s)[1])
                       THEN <<pair>> \o s
                       ELSE <<Head(s)>> \o ins(Tail(s))
    IN ins(sorted)

\* a dump that keeps the insertion order of the keys
SortKeys_insertion_order(schema) == schema

\* sort_keys=True: the pairs in the order of their keys
SortKeys(schema) ==
    LET RECURSIVE srt(_)
        srt(s) == IF s = <<>> THEN <<>> ELSE InsertSorted(Head(s), srt(Tail(s)))
    IN srt(schema)

Quote(s) == "\"" \o s \o "\""

\* json.dumps(schema, sort_keys=True, ensure_ascii=False)
DumpsSchema(schema) ==
    LET sorted == SortKeys(schema)
        RECURSIVE members(_)
        members(n) ==
            IF n > Len(sorted) THEN ""
            ELSE Quote(sorted[n][1]) \o ": " \o Quote(sorted[n][2])
                 \o (IF n < Len(sorted) THEN ", " ELSE "") \o members(n + 1)
    IN "{" \o members(1) \o "}"

hash_extraction_schema(schema) == sha256(DumpsSchema(schema))

CacheKey(label, pdf_hash, schema_hash) ==
    "extract:" \o label \o ":" \o pdf_hash \o ":" \o schema_hash

(***************************************************************************)
(* Layout extraction (src/core/extractor.py)                               *)
(***************************************************************************)
\* coordinates are whole points; a centre or a third of a page is compared
\* exactly, at six times its value
\* _calculate_zone with the bands closed at their upper end
calculate_zone_inclusive(bbox, page_width, page_height) ==
    LET x_center == 3 * (bbox[1] + bbox[3])
        y_center == 3 * (bbox[2] + bbox[4])
        x_third == 2 * page_width
        y_third == 2 * page_height
        h_pos == IF x_center <= x_third THEN "LEFT"
                 ELSE IF x_center <= 2 * x_third THEN "CENTER"
                 ELSE "RIGHT"
        v_pos == IF y_center <= y_third THEN "TOP"
                 ELSE IF y_center <= 2 * y_third THEN "MIDDLE"
                 ELSE "BOTTOM"
    IN IF v_pos = "MIDDLE" THEN h_pos ELSE v_pos \o "-" \o h_pos

\* PdfExtractor._calculate_zone
calculate_zone(bbox, page_width, page_height) ==
    LET x_center == 3 * (bbox[1] + bbox[3])
        y_center == 3 * (bbox[2] + bbox[4])
        x_third == 2 * page_width
        y_third == 2 * page_height
        h_pos == IF x_center < x_third THEN "LEFT"
                 ELSE IF x_center < 2 * x_third THEN "CENTER"
                 ELSE "RIGHT"
        v_pos == IF y_center < y_third THEN "TOP"
                 ELSE IF y_center < 2 * y_third THEN "MIDDLE"
                 ELSE "BOTTOM"
    IN IF v_pos = "MIDDLE" THEN h_pos ELSE v_pos \o "-" \o h_pos

\* the order of two sort keys (tuples of two numbers), as Python compares
\* tuples
KeyLessEq(a, b) == a[1] < b[1] \/ (a[1] = b[1] /\ a[2] <= b[2])

\* sorted(seq, key=...): stable; keys[n] is the key of seq[n]
SortedBy(seq, keys) ==
    LET RECURSIVE ins(_, _)
        ins(i, s) == IF s = <<>> THEN <<i>>
                     ELSE IF KeyLessEq(keys[Head(s)], keys[i])
                          THEN <<Head(s)>> \o ins(i, Tail(s))
                     ELSE <<i>> \o s
        RECURSIVE srt(_, _)
        srt(n, acc) == IF n > Len(seq) THEN acc ELSE srt(n + 1, ins(n, acc))
        order == srt(1, <<>>)
    IN [n \in 1 .. Len(seq) |-> seq[order[n]]]

Min(S) == CHOOSE x \in S : \A y \in S : x <= y
Max(S) == CHOOSE x \in S : \A y \in S : x >= y
Abs(x) == IF x < 0 THEN -x ELSE x

\* " ".join(...)
Join(sep, strs) ==
    LET RECURSIVE j(_)
        j(n) == IF n > Len(strs) THEN ""
                ELSE strs[n] \o (IF n < Len(strs) THEN sep ELSE "") \o j(n + 1)
    IN j(1)

\* PdfExtractor._create_line_dict
create_line_dict(words) ==
    LET words_sorted == SortedBy(words, [n \in 1 .. Len(words) |->
                                               <<words[n].bbox[1], 0>>])
        Ix == 1 .. Len(words_sorted)
    IN [text |-> Join(" ", [n \in Ix |-> words_sorted[n].text]),
        bbox |-> <<Min({words_sorted[n].bbox[1] : n \in Ix}),
                   Min({words_sorted[n].bbox[2] : n \in Ix}),
                   Max({words_sorted[n].bbox[3] : n \in Ix}),
                   Max({words_sorted[n].bbox[4] : n \in Ix})>>,
        zone |-> words_sorted[1].zone,
        word_count |-> Len(words_sorted)]

y_threshold == 5

\* a reference that follows the word that joined last
LineReference_last_word(current_y, word_y) == word_y

\* the reference top after a word joined the current line: unchanged, the
\* top of the word that started the line
LineReference(current_y, word_y) == current_y

\* the walk of _group_words_to_lines: the members of every line, in the
\* order of the walk
line_members(words) ==
    IF words = <<>> THEN <<>>
    ELSE
    LET sorted_words ==
            SortedBy(words, [n \in 1 .. Len(words) |->
                                <<words[n].bbox[2], words[n].bbox[1]>>])
        RECURSIVE walk(_, _, _, _)
        walk(n, lines, current_line, current_y) ==
            IF n > Len(sorted_words)
            THEN (IF current_line # <<>> THEN Append(lines, current_line)
                  ELSE lines)
            ELSE LET word == sorted_words[n]
                     word_y == word.bbox[2]
                 IN IF Abs(word_y - current_y) <= y_threshold
                    THEN walk(n + 1, lines, Append(current_line, word),
                              LineReference(current_y, word_y))
                    ELSE walk(n + 1,
                              IF current_line # <<>>
                              THEN Append(lines, current_line) ELSE lines,
                              <<word>>, word_y)
    IN walk(1, <<>>, <<>>, sorted_words[1].bbox[2])

\* PdfExtractor._group_words_to_lines
group_words_to_lines(words) ==
    LET members == line_members(words)
    IN [n \in 1 .. Len(members) |-> create_line_dict(members[n])]

\* PdfExtractor._format_layout_text; int() of a whole number is the number
format_layout_text(lines) ==
    Join("\n", [n \in 1 .. Len(lines) |->
        "[" \o lines[n].zone \o "] [x:" \o ToString(lines[n].bbox[1]) \o "-"
            \o ToString(lines[n].bbox[3]) \o ", y:" \o ToString(lines[n].bbox[2])
            \o "] " \o lines[n].text])

ExtractedDocument(layout_text, words, meta) ==
    [layout_text |-> layout_text, words |-> words, meta |-> meta]

NoDoc == ExtractedDocument("", <<>>,
            [source |-> "", engine |-> "", pages |-> 0, page_width |-> 0,
             page_height |-> 0, has_tables |-> FALSE, word_count |-> 0,
             line_count |-> 0])

\* PdfExtractor.load once the file is open: the exception it raises, or
\* NoException
load_pdf_raises(pdf) ==
    IF Len(pdf.pages) = 0
    THEN Exception("ValueError", "Empty PDF: no pages found")
    ELSE IF pdf.pages[1].words = <<>>
    THEN Exception("ValueError", "Empty PDF: no text content")
    ELSE NoException

\* a load that reads the words of every page
FirstPage_all_pages(pdf) ==
    LET RECURSIVE all(_)
        all(n) == IF n > Len(pdf.pages) THEN <<>>
                  ELSE pdf.pages[n].words \o all(n + 1)
    IN [pdf.pages[1] EXCEPT !.words = all(1)]

\* `page = pdf.pages[0]`
FirstPage(pdf) == pdf.pages[1]

\* PdfExtractor.load once the file is open, on success
load_pdf(pdf, source) ==
    LET page == FirstPage(pdf)
        words_raw == page.words
        words == [n \in 1 .. Len(words_raw) |->
                    LET word == words_raw[n]
                        bbox == <<word.x0, word.top, word.x1, word.bottom>>
                    IN [text |-> word.text, bbox |-> bbox,
                        zone |-> calculate_zone(bbox, page.width, page.height)]]
        lines == group_words_to_lines(words)
    IN ExtractedDocument(format_layout_text(lines), words,
           [source |-> source, engine |-> "pdfplumber", pages |-> 1,
            page_width |-> page.width, page_height |-> page.height,
            has_tables |-> page.tables > 0, word_count |-> Len(words),
            line_count |-> Len(lines)])

\* PdfExtractor.load: the exception it raises, or NoException.
\* pdfplumber.open raises on a file it cannot parse.
load_raises(pdf_path) ==
    IF ~Exists(pdf_path)
    THEN Exception("FileNotFoundError", "PDF not found: " \o pdf_path)
    ELSE LET pdf == PdfContent(Disk[pdf_path])
         IN IF ~pdf.parses
            THEN Exception("PDFSyntaxError", "No /Root object! - Is this really a PDF?")
            ELSE load_pdf_raises(pdf)

\* PdfExtractor.load on success
load(pdf_path) == load_pdf(PdfContent(Disk[pdf_path]), pdf_path)

(***************************************************************************)
(* Field extractor (src/core/llm_orchestrator.py)                          *)
(***************************************************************************)
\* str.strip() on the raw values the API can answer with
Strip(s) ==
    LET RECURSIVE lstrip(_)
        lstrip(x) == IF x # "" /\ SubSeq(x, 1, 1) = " "
                     THEN lstrip(SubSeq(x, 2, Len(x))) ELSE x
        RECURSIVE rstrip(_)
        rstrip(x) == IF x # "" /\ SubSeq(x, Len(x), Len(x)) = " "
                     THEN rstrip(SubSeq(x, 1, Len(x) - 1)) ELSE x
    IN rstrip(lstrip(s))

RawValues == {PyNone, PyStr("  "), PyStr(" Joao ")}

\* what the OpenAI call can do: raise, answer nothing, or answer one raw
\* value per schema field
ApiOutcomes(schema) ==
    {[kind |-> "error", values |-> <<>>], [kind |-> "empty", values |-> <<>>]}
    \cup {[kind |-> "parsed", values |-> vs] : vs \in [1 .. Len(schema) -> RawValues]}

\* the environment of a run: which transport outcomes of the cache store
\* (ping, get, set) and which kinds of API answer can occur
FullEnv == [ping |-> BOOLEAN, get |-> BOOLEAN, set |-> BOOLEAN,
            api |-> {"error", "empty", "parsed"}]

fallback_error(schema, reason) ==
    [n \in 1 .. Len(schema) |->
        <<schema[n][1], [value |-> PyNone, details |-> [error |-> reason]]>>]

normalize_pydantic_response(parsed_data, schema) ==
    [n \in 1 .. Len(schema) |->
        LET raw_value == parsed_data[n]
            value == IF raw_value.t = "str"
                     THEN (IF Strip(raw_value.v) = "" THEN PyNone
                           ELSE PyStr(Strip(raw_value.v)))
                     ELSE raw_value
        IN <<schema[n][1],
             [value |-> value,
              details |-> [source |-> "openai", method |-> "responses.parse"]]>>]

\* extract_fields: an ordered dict field name -> {value, details}
extract_fields(label, extraction_schema, doc_layout, api) ==
    IF ~Truthy(settings.openai_api_key)
    THEN fallback_error(extraction_schema, "openai_key_missing")
    ELSE IF api.kind = "error"
    THEN fallback_error(extraction_schema, "openai_api_error")
    ELSE IF api.kind = "empty"
    THEN fallback_error(extraction_schema, "empty_response")
    ELSE normalize_pydantic_response(api.values, extraction_schema)

\* the keyword parameters of pydantic.create_model: a keyword argument of
\* that name is the parameter, not a field definition
CreateModelParameters ==
    {"__config__", "__base__", "__module__", "__validators__", "__cls_kwargs__"}

\* create_model("ExtractionModel", **pydantic_fields): the exception it
\* raises, or NoException.  A (type, FieldInfo) tuple is no base class,
\* configuration, module name or validator mapping.
create_model_raises(extraction_schema) ==
    IF \E n \in 1 .. Len(extraction_schema) :
          extraction_schema[n][1] \in CreateModelParameters
    THEN Exception("TypeError", "create_model: " \o
            (CHOOSE name \in CreateModelParameters :
                \E n \in 1 .. Len(extraction_schema) :
                    extraction_schema[n][1] = name))
    ELSE NoException

\* extract_fields: the exception it raises, or NoException.  The key check
\* returns first; the per-schema model is built before the `try`.
extract_fields_raises(extraction_schema) ==
    IF ~Truthy(settings.openai_api_key) THEN NoException
    ELSE create_model_raises(extraction_schema)

(***************************************************************************)
(* Results and their JSON form                                             *)
(***************************************************************************)
NoMeta == [cache_hit |-> FALSE, cache_key |-> "", pdf_hash |-> "",
           schema_hash |-> "", doc_meta |-> NoDoc.meta,
           trace |-> [llm_resolved |-> <<>>, unresolved |-> <<>>]]

ExtractionResult(label, fields, meta) ==
    [label |-> label, fields |-> fields, meta |-> meta]

NoResult == ExtractionResult("", <<>>, NoMeta)

\* json.dumps of one field value: None -> null, str -> quoted string
DumpsValue(x) == IF x.t = "None" THEN "null" ELSE Quote(x.v)

\* json.loads of one field value
LoadsValue(j) == IF j = "null" THEN PyNone ELSE PyStr(SubSeq(j, 2, Len(j) - 1))

\* json.dumps(result.model_dump()): the members of the stored document
json_dumps(obj) ==
    [label |-> Quote(obj.label),
     fields |-> [n \in 1 .. Len(obj.fields) |->
                    <<Quote(obj.fields[n][1]), DumpsValue(obj.fields[n][2])>>],
     meta |-> obj.meta]

\* a stored string that is not the dump of a document: its text
RawText(s) == [text |-> s]
IsText(raw) == "text" \in DOMAIN raw

\* the JSON texts among the raw strings: null and quoted strings
ValidJsonValue(j) ==
    \/ j = "null"
    \/ (Len(j) >= 2 /\ SubSeq(j, 1, 1) = "\"" /\ SubSeq(j, Len(j), Len(j)) = "\"")

\* a decoder that accepts every text
json_loads_raises_never(raw) == FALSE

\* json.loads raises JSONDecodeError on a text that is not JSON
json_loads_raises(raw) == IsText(raw) /\ ~ValidJsonValue(raw.text)

\* json.dumps raises TypeError on an object that has no JSON form (bytes)
json_dumps_raises(obj) == "t" \in DOMAIN obj /\ obj.t = "bytes"

\* json.loads of a stored document
json_loads(raw) ==
    [label |-> SubSeq(raw.label, 2, Len(raw.label) - 1),
     fields |-> [n \in 1 .. Len(raw.fields) |->
                    <<SubSeq(raw.fields[n][1], 2, Len(raw.fields[n][1]) - 1),
                      LoadsValue(raw.fields[n][2])>>],
     meta |-> raw.meta]

(***************************************************************************)
(* Cache client (src/core/cache.py).  A transport outcome (ok or not) is   *)
(* an input of every operation.                                            *)
(***************************************************************************)
DefaultTtl == 600

\* CacheClient.__init__: the exception it raises when the ping fails
CacheClientInit(ping_ok) ==
    IF ping_ok THEN NoException
    ELSE Exception("ConnectionError", "Error connecting to redis:6379.")

\* CacheClient.health_check: the ping's answer, False when it fails
health_check(ping_ok) == ping_ok

\* CacheClient.get: the stored string, or None
CacheGet(key, transport_ok) ==
    IF transport_ok /\ key \in DOMAIN cache
    THEN [t |-> "str", v |-> cache[key].value]
    ELSE PyNone

\* CacheClient.get_json: the decoded object, or None
get_json(key, transport_ok) ==
    LET raw == CacheGet(key, transport_ok)
    IN IF raw = PyNone THEN PyNone
       ELSE IF json_loads_raises(raw.v) THEN PyNone
       ELSE IF IsText(raw.v) THEN LoadsValue(raw.v.text)
       ELSE [t |-> "dict", v |-> json_loads(raw.v)]

\* CacheClient.set through set_json: the store afterwards; `by` records the
\* invocation that wrote the entry
\* the ttl of an entry that never expires
NoExpiry == 0

\* a write that gives every entry the default expiry
CacheSet_default_expiry(key, value, ttl_seconds, transport_ok, by) ==
    IF transport_ok
    THEN (key :> [value |-> value, ttl |-> DefaultTtl, by |-> by]) @@ cache
    ELSE cache

\* setex when ttl_seconds > 0, set otherwise
CacheSet(key, value, ttl_seconds, transport_ok, by) ==
    IF transport_ok
    THEN (key :> [value |-> value,
                  ttl |-> IF ttl_seconds > 0 THEN ttl_seconds ELSE NoExpiry,
                  by |-> by]) @@ cache
    ELSE cache

\* CacheClient.set: what it returns
CacheSetReturns(transport_ok) == transport_ok

\* a write that keeps the entry already stored (SET ... NX)
set_json_keep_existing(key, obj, ttl_seconds, transport_ok, by) ==
    IF json_dumps_raises(obj) \/ key \in DOMAIN cache THEN cache
    ELSE CacheSet(key, json_dumps(obj), ttl_seconds, transport_ok, by)

\* CacheClient.set_json: the store afterwards
set_json(key, obj, ttl_seconds, transport_ok, by) ==
    IF json_dumps_raises(obj) THEN cache
    ELSE CacheSet(key, json_dumps(obj), ttl_seconds, transport_ok, by)

\* CacheClient.set_json: what it returns
set_json_returns(obj, transport_ok) ==
    IF json_dumps_raises(obj) THEN FALSE ELSE CacheSetReturns(transport_ok)

(***************************************************************************)
(* run_extraction (src/core/pipeline.py), one invocation per slot          *)
(***************************************************************************)
IdleInv ==
    [pc |-> "idle", request |-> NoRequest, use_cache |-> FALSE,
     pdf_path |-> "", cache_key |-> "", pdf_hash |-> "", schema_hash |-> "",
     doc |-> NoDoc, llm_results |-> <<>>,
     result |-> NoResult, exc |-> NoException,
     reads |-> 0, found |-> FALSE, read_from |-> -1,
     writes |-> 0, wrote |-> FALSE,
     extract_calls |-> 0, llm_calls |-> 0]

\* `if not request.pdf_path: raise ValueError(...)`
PdfPathRequired ==
    Exception("ValueError",
              "pdf_path is required until direct uploads are supported.")

Raise_as_result(p, e) == [inv EXCEPT ![p].pc = "returned"]

\* a raise statement, or a call that raises, outside any try: the exception
\* leaves run_extraction as it is
Raise(p, e) == [inv EXCEPT ![p].pc = "raised", ![p].exc = e]

\* the cache-hit branch returning the stored meta untouched
HitResult_stored_flags(cached_payload, cache_key) ==
    ExtractionResult(cached_payload.label, cached_payload.fields,
                     cached_payload.meta)

\* the cache-hit branch: overwrite the live flags and validate
HitResult(cached_payload, cache_key) ==
    ExtractionResult(cached_payload.label, cached_payload.fields,
        [cached_payload.meta EXCEPT !.cache_hit = TRUE, !.cache_key = cache_key])

\* a lookup that ignores the flag
LookupEnabled_always(uc) == TRUE

\* `if use_cache:`
LookupEnabled(uc) == uc

\* a lookup whose payload is never taken
PayloadTruthy_never(cached_payload) == FALSE

\* `if cached_payload:` - None and an empty document are falsy
PayloadTruthy(cached_payload) ==
    cached_payload # PyNone /\ DOMAIN cached_payload.v # {}

\* validation, path resolution, fingerprints, cache client and lookup
Lookup(p, env) ==
    /\ inv[p].pc = "called"
    /\ LET request == inv[p].request IN
       IF ~Truthy(request.pdf_path)
       THEN inv' = Raise(p, PdfPathRequired)
       ELSE
       LET pdf_path == resolve_pdf_path(request.pdf_path.v) IN
       IF ~Exists(pdf_path)
       THEN inv' = Raise(p, Exception("FileNotFoundError",
                     "[Errno 2] No such file or directory: '" \o pdf_path \o "'"))
       ELSE
       LET pdf_bytes == Disk[pdf_path]
           pdf_hash == hash_pdf_bytes(pdf_bytes)
           schema_hash == hash_extraction_schema(request.extraction_schema)
           cache_key == CacheKey(request.label, pdf_hash, schema_hash)
           hashed == [inv[p] EXCEPT !.pdf_path = pdf_path, !.pdf_hash = pdf_hash,
                        !.schema_hash = schema_hash, !.cache_key = cache_key]
       IN \E ping_ok \in env.ping, get_ok \in env.get :
            IF CacheClientInit(ping_ok) # NoException
            THEN inv' = [inv EXCEPT ![p] =
                           [hashed EXCEPT !.pc = "raised",
                                          !.exc = CacheClientInit(ping_ok)]]
            ELSE IF LookupEnabled(inv[p].use_cache)
            THEN LET cached_payload == get_json(cache_key, get_ok)
                     looked == [hashed EXCEPT !.reads = @ + 1,
                                  !.found = cached_payload # PyNone,
                                  !.read_from = IF cached_payload # PyNone
                                                THEN cache[cache_key].by ELSE -1]
                 IN
                 IF PayloadTruthy(cached_payload)
                 THEN inv' = [inv EXCEPT ![p] =
                         [looked EXCEPT !.pc = "returned",
                            !.result = HitResult(cached_payload.v, cache_key)]]
                 ELSE inv' = [inv EXCEPT ![p] = [looked EXCEPT !.pc = "compute"]]
            ELSE inv' = [inv EXCEPT ![p] = [hashed EXCEPT !.pc = "compute"]]
    /\ UNCHANGED <<settings, cache>>

\* an extraction that records its failure in the cache before raising
Compute_caches_failure(p, env) ==
    /\ inv[p].pc = "compute"
    /\ load_raises(inv[p].pdf_path) # NoException
    /\ inv' = [Raise(p, load_raises(inv[p].pdf_path))
                  EXCEPT ![p].extract_calls = @ + 1]
    /\ cache' = (inv[p].cache_key :>
                    [value |-> RawText("failed"), ttl |-> DefaultTtl, by |-> p])
                @@ cache
    /\ UNCHANGED settings

\* layout extraction, then the field extractor
Compute(p, env) ==
    /\ inv[p].pc = "compute"
    /\ IF load_raises(inv[p].pdf_path) # NoException
       THEN inv' = [Raise(p, load_raises(inv[p].pdf_path))
                       EXCEPT ![p].extract_calls = @ + 1]
       ELSE LET doc == load(inv[p].pdf_path) IN
            IF extract_fields_raises(inv[p].request.extraction_schema) # NoException
            THEN inv' = [Raise(p, extract_fields_raises(
                                      inv[p].request.extraction_schema))
                            EXCEPT ![p].doc = doc,
                                   ![p].extract_calls = @ + 1,
                                   ![p].llm_calls = @ + 1]
            ELSE
            \E api \in {a \in ApiOutcomes(inv[p].request.extraction_schema) :
                            a.kind \in env.api} :
               inv' = [inv EXCEPT ![p].pc = "store", ![p].doc = doc,
                          ![p].extract_calls = @ + 1, ![p].llm_calls = @ + 1,
                          ![p].llm_results =
                              extract_fields(inv[p].request.label,
                                  inv[p].request.extraction_schema,
                                  doc.layout_text, api)]
    /\ UNCHANGED <<settings, cache>>

Assemble_unresolved_as_resolved(i) ==
    LET llm_results == i.llm_results
        fields == [n \in 1 .. Len(llm_results) |->
                      <<llm_results[n][1], llm_results[n][2].value>>]
        Names(s) == [n \in 1 .. Len(s) |-> s[n][1]]
        trace_info == [llm_resolved |-> Names(llm_results), unresolved |-> <<>>]
        meta == [cache_hit |-> FALSE, cache_key |-> i.cache_key,
                 pdf_hash |-> i.pdf_hash, schema_hash |-> i.schema_hash,
                 doc_meta |-> i.doc.meta, trace |-> trace_info]
    IN ExtractionResult(i.request.label, fields, meta)

\* result assembly
Assemble(i) ==
    LET llm_results == i.llm_results
        fields == [n \in 1 .. Len(llm_results) |->
                      <<llm_results[n][1], llm_results[n][2].value>>]
        Resolved(e) == Truthy(e[2].value)
        Unresolved(e) == ~Truthy(e[2].value)
        Names(s) == [n \in 1 .. Len(s) |-> s[n][1]]
        trace_info == [llm_resolved |-> Names(SelectSeq(llm_results, Resolved)),
                       unresolved |-> Names(SelectSeq(llm_results, Unresolved))]
        meta == [cache_hit |-> FALSE, cache_key |-> i.cache_key,
                 pdf_hash |-> i.pdf_hash, schema_hash |-> i.schema_hash,
                 doc_meta |-> i.doc.meta, trace |-> trace_info]
    IN ExtractionResult(i.request.label, fields, meta)

\* a store step that writes nothing when the field extractor failed as a
\* whole (every field carries the error tag)
Store_skip_failures(p, env) ==
    /\ inv[p].pc = "store"
    /\ LET result == Assemble(inv[p])
           failed == \A n \in DOMAIN inv[p].llm_results :
                        "error" \in DOMAIN inv[p].llm_results[n][2].details
       IN
       \E set_ok \in env.set :
          /\ cache' = IF failed THEN cache
                      ELSE set_json(inv[p].cache_key, result, DefaultTtl, set_ok, p)
          /\ inv' = [inv EXCEPT ![p].pc = "returned", ![p].result = result,
                                ![p].writes = @ + 1, ![p].wrote = set_ok]
    /\ UNCHANGED settings

\* result assembly and the cache write
Store(p, env) ==
    /\ inv[p].pc = "store"
    /\ LET result == Assemble(inv[p]) IN
       \E set_ok \in env.set :
          /\ cache' = set_json(inv[p].cache_key, result, DefaultTtl, set_ok, p)
          /\ inv' = [inv EXCEPT ![p].pc = "returned", ![p].result = result,
                                ![p].writes = @ + 1, ![p].wrote = set_ok]
    /\ UNCHANGED settings

\* the entry's TTL runs out
Expire(key) ==
    /\ key \in DOMAIN cache
    /\ cache[key].ttl > 0
    /\ cache' = [k \in DOMAIN cache \ {key} |-> cache[k]]
    /\ UNCHANGED <<settings, inv>>

(***************************************************************************)
(* Direct callers: the /extract and /extract/upload endpoints build a      *)
(* request and call run_extraction (src/main.py)                           *)
(***************************************************************************)
\* (extraction_schema, pdf_path, pdf_bytes) of the requests callers send
CallArgs ==
    {<<SchemaNome, PyStr("a.pdf"), PyNone>>,
     <<SchemaTwo, PyStr("b.pdf"), PyNone>>,
     <<SchemaNome, PyStr("/data/gone.pdf"), PyNone>>,
     <<SchemaNome, PyStr("/data/empty.pdf"), PyNone>>,
     <<SchemaNome, PyStr(""), PyNone>>,
     <<SchemaNome, PyNone, PyBytes("%PDF-a")>>,
     <<SchemaNome, PyNone, PyNone>>,
     <<SchemaNome, PyStr("a.pdf"), PyBytes("%PDF-a")>>}

CallOf(p, requests) ==
    /\ inv[p].pc = "idle"
    /\ \E label \in Labels, args \in requests, uc \in BOOLEAN :
          LET request == ExtractionRequest(label, args[1], args[2], args[3]) IN
          IF validate_pdf_source(request) # NoException
          THEN inv' = [inv EXCEPT ![p].pc = "rejected",
                                  ![p].exc = validate_pdf_source(request)]
          ELSE inv' = [inv EXCEPT ![p].pc = "called", ![p].request = request,
                                  ![p].use_cache = uc]
    /\ UNCHANGED <<settings, cache>>

Call(p) == CallOf(p, CallArgs)

\* Settings(): the fields the core reads
Settings(max_concurrent_extractions, openai_api_key, pdf_base_path) ==
    [max_concurrent_extractions |-> max_concurrent_extractions,
     openai_api_key |-> openai_api_key, pdf_base_path |-> pdf_base_path]

DefaultMaxConcurrentExtractions == 10

Init ==
    /\ settings \in {Settings(DefaultMaxConcurrentExtractions,
                                PyStr("sk-test"), PyStr(BasePath)),
                       Settings(DefaultMaxConcurrentExtractions, PyNone, PyNone)}
    /\ cache = <<>>
    /\ inv = [p \in Slots |-> IdleInv]
    /\ items = <<>>
    /\ use_cache = TRUE
    /\ task = [i \in Slots |-> [pc |-> "none"]]
    /\ semaphore = [value |-> 0, waiters |-> <<>>]
    /\ ready = <<>>
    /\ done = <<>>
    /\ gen = [pc |-> "none"]
    /\ out = <<>>
    /\ finish_order = <<>>
    /\ frame = NoFrame

Next ==
    \/ \E p \in Callers : Call(p) /\ UNCHANGED <<batchVars, frame>>
    \/ \E p \in Callers : Lookup(p, FullEnv) /\ UNCHANGED <<batchVars, frame>>
    \/ \E p \in Callers : Compute(p, FullEnv) /\ UNCHANGED <<batchVars, frame>>
    \/ \E p \in Callers : Store(p, FullEnv) /\ UNCHANGED <<batchVars, frame>>
    \/ \E key \in DOMAIN cache : Expire(key) /\ UNCHANGED <<batchVars, frame>>

Spec == Init /\ [][Next]_vars

(***************************************************************************)
(* One caller calling run_extraction again and again: each call starts     *)
(* after the previous one has returned or raised, on the cache the         *)
(* previous calls left                                                     *)
(***************************************************************************)
\* the requests of CallArgs, a schema with the names of SchemaTwo in the
\* other order, and a schema whose field name create_model reserves
SerialArgs ==
    CallArgs \cup {<<SchemaTwoReversed, PyStr("b.pdf"), PyNone>>,
                   <<SchemaReserved, PyStr("a.pdf"), PyNone>>}

SerialCaller == 0

\* the caller has the result or the exception in hand and makes the next call
NextCall(p) ==
    /\ inv[p].pc \in {"returned", "raised", "rejected"}
    /\ inv' = [inv EXCEPT ![p] = IdleInv]
    /\ UNCHANGED <<settings, cache>>

NextSerial ==
    \/ CallOf(SerialCaller, SerialArgs) /\ UNCHANGED <<batchVars, frame>>
    \/ Lookup(SerialCaller, FullEnv) /\ UNCHANGED <<batchVars, frame>>
    \/ Compute(SerialCaller, FullEnv) /\ UNCHANGED <<batchVars, frame>>
    \/ Store(SerialCaller, FullEnv) /\ UNCHANGED <<batchVars, frame>>
    \/ NextCall(SerialCaller) /\ UNCHANGED <<batchVars, frame>>
    \/ \E key \in DOMAIN cache : Expire(key) /\ UNCHANGED <<batchVars, frame>>

SpecSerial == Init /\ [][NextSerial]_vars

(***************************************************************************)
(* Batch orchestrator (src/core/batch.py)                                  *)
(***************************************************************************)
BatchExtractionItem(label, extraction_schema, pdf_path) ==
    [label |-> label, extraction_schema |-> extraction_schema,
     pdf_path |-> pdf_path]

BatchItemResult(index, status, label, fields, meta, error) ==
    [index |-> index, status |-> status, label |-> label,
     fields |-> fields, meta |-> meta, error |-> error]

BatchSummary(status, total, successful, failed) ==
    [status |-> status, total |-> total, successful |-> successful,
     failed |-> failed]

N == Len(items)
Indices == 0 .. N - 1

\* items[index] of the Python list
Item(index) == items[index + 1]

\* process_one with the loop variable bound late: every result carries the
\* last index
process_one_late_index(index, item, run) ==
    IF run.pc = "returned"
    THEN BatchItemResult(N - 1, "completed", item.label,
             [t |-> "dict", v |-> run.result.fields],
             [t |-> "dict", v |-> run.result.meta], PyNone)
    ELSE BatchItemResult(N - 1, "error", item.label, PyNone, PyNone,
             PyStr(run.exc.type \o ": " \o run.exc.msg))

\* process_one reporting str(e) without the exception's type name
process_one_message_only(index, item, run) ==
    IF run.pc = "returned"
    THEN BatchItemResult(index, "completed", item.label,
             [t |-> "dict", v |-> run.result.fields],
             [t |-> "dict", v |-> run.result.meta], PyNone)
    ELSE BatchItemResult(index, "error", item.label, PyNone, PyNone,
             PyStr(run.exc.msg))

\* process_one after run_in_executor is over: the run's ExtractionResult
\* becomes a completed result, its exception an error result
process_one(index, item, run) ==
    IF run.pc = "returned"
    THEN BatchItemResult(index, "completed", item.label,
             [t |-> "dict", v |-> run.result.fields],
             [t |-> "dict", v |-> run.result.meta], PyNone)
    ELSE BatchItemResult(index, "error", item.label, PyNone, PyNone,
             PyStr(run.exc.type \o ": " \o run.exc.msg))

\* an acquire that never waits
Acquirable_unbounded(sem) == TRUE

\* Semaphore.acquire without waiting: a free slot and nobody queued
Acquirable(sem) == sem.value > 0 /\ sem.waiters = <<>>

\* counters that count every result as a success
Count_all_successful(g, result) ==
    [g EXCEPT !.completed_count = @ + 1,
              !.successful_count = @ + 1]

\* the loop body's counters (lines 109-114)
Count(g, result) ==
    [g EXCEPT !.completed_count = @ + 1,
              !.successful_count = IF result.status = "completed" THEN @ + 1 ELSE @,
              !.failed_count = IF result.status = "completed" THEN @ ELSE @ + 1]

\* awaiting the tasks in input order: the lowest finished index first
NextCompleted_input_order(queue) ==
    CHOOSE i \in {queue[n] : n \in 1 .. Len(queue)} :
        \A n \in 1 .. Len(queue) : i <= queue[n]

\* asyncio.as_completed hands out the finished tasks first come first served
NextCompleted(queue) == Head(queue)

\* process_one up to run_in_executor: the request is built and the pipeline
\* run submitted to the executor
Submit(index) ==
    [IdleInv EXCEPT !.pc = "called",
        !.request = ExtractionRequest(Item(index).label,
                        Item(index).extraction_schema,
                        PyStr(Item(index).pdf_path), PyNone),
        !.use_cache = use_cache]

\* first __anext__: settings, semaphore, the task list, as_completed
GenStart ==
    /\ gen.pc = "created"
    /\ IF settings.max_concurrent_extractions < 0
       THEN /\ gen' = [gen EXCEPT !.pc = "failed"]
            /\ UNCHANGED <<task, semaphore>>
       ELSE /\ gen' = [gen EXCEPT !.pc = "iter"]
            /\ semaphore' = [value |-> settings.max_concurrent_extractions,
                             waiters |-> <<>>]
            /\ task' = [i \in Slots |->
                          IF i \in Indices THEN [task[i] EXCEPT !.pc = "scheduled"]
                          ELSE task[i]]
    /\ UNCHANGED <<settings, cache, inv, items, use_cache, ready, done, out,
                   finish_order, frame>>

\* a task starts: `async with semaphore`, then process_one
TaskStart(i) ==
    /\ i \in Indices
    /\ task[i].pc = "scheduled"
    /\ IF Acquirable(semaphore)
       THEN /\ semaphore' = [semaphore EXCEPT !.value = @ - 1]
            /\ task' = [task EXCEPT ![i].pc = "running"]
            /\ inv' = [inv EXCEPT ![i] = Submit(i)]
       ELSE /\ semaphore' = [semaphore EXCEPT !.waiters = Append(@, i)]
            /\ task' = [task EXCEPT ![i].pc = "waiting"]
            /\ UNCHANGED inv
    /\ UNCHANGED <<settings, cache, items, use_cache, ready, done, gen, out,
                   finish_order, frame>>

\* the executor thread is over: its future completes on the event loop
ExecutorDone(i) ==
    /\ i \in Indices
    /\ task[i].pc = "running"
    /\ inv[i].pc \in {"returned", "raised"}
    /\ task' = [task EXCEPT ![i].pc = "resuming"]
    /\ ready' = Append(ready, i)
    /\ finish_order' = Append(finish_order, i)
    /\ UNCHANGED <<settings, cache, inv, items, use_cache, semaphore, done,
                   gen, out, frame>>

\* the event loop resumes the task: process_one returns its result, the
\* semaphore is released (the first waiter takes the slot and submits its
\* run), the finished task joins the as_completed queue
TaskFinish ==
    /\ ready # <<>>
    /\ LET i == Head(ready)
           batch_result == process_one(i, Item(i), inv[i])
       IN /\ ready' = Tail(ready)
          /\ done' = Append(done, i)
          /\ IF semaphore.waiters # <<>>
             THEN LET w == Head(semaphore.waiters) IN
                  /\ semaphore' = [semaphore EXCEPT !.waiters = Tail(@)]
                  /\ task' = [task EXCEPT ![i].pc = "done",
                                          ![i].result = batch_result,
                                          ![w].pc = "running"]
                  /\ inv' = [inv EXCEPT ![w] = Submit(w)]
             ELSE /\ semaphore' = [semaphore EXCEPT !.value = @ + 1]
                  /\ task' = [task EXCEPT ![i].pc = "done",
                                          ![i].result = batch_result]
                  /\ UNCHANGED inv
    /\ UNCHANGED <<settings, cache, items, use_cache, gen, out, finish_order, frame>>

\* `result = await coro`, the counters, `yield result`
GenYield ==
    /\ gen.pc = "iter"
    /\ gen.completed_count < N
    /\ done # <<>>
    /\ LET result == task[NextCompleted(done)].result IN
          /\ done' = SelectSeq(done, LAMBDA i : i # NextCompleted(done))
          /\ gen' = [Count(gen, result) EXCEPT !.pc = "yielded"]
          /\ out' = Append(out, result)
    /\ UNCHANGED <<settings, cache, inv, items, use_cache, task, semaphore,
                   ready, finish_order, frame>>

\* the consumer asks for the next element: asyncio.sleep(0.250), next turn
GenResume ==
    /\ gen.pc = "yielded"
    /\ gen' = [gen EXCEPT !.pc = "iter"]
    /\ UNCHANGED <<settings, cache, inv, items, use_cache, task, semaphore,
                   ready, done, out, finish_order, frame>>

\* as_completed is exhausted: the summary
GenSummary ==
    /\ gen.pc = "iter"
    /\ gen.completed_count = N
    /\ gen' = [gen EXCEPT !.pc = "summary"]
    /\ out' = Append(out, BatchSummary("done", N, gen.successful_count,
                                       gen.failed_count))
    /\ UNCHANGED <<settings, cache, inv, items, use_cache, task, semaphore,
                   ready, done, finish_order, frame>>

\* the consumer asks once more: the generator returns
GenClose ==
    /\ gen.pc = "summary"
    /\ gen' = [gen EXCEPT !.pc = "closed"]
    /\ UNCHANGED <<settings, cache, inv, items, use_cache, task, semaphore,
                   ready, done, out, finish_order, frame>>

NoBatchResult == BatchItemResult(-1, "", "", PyNone, PyNone, PyNone)

KValues == -1 .. MaxK

BatchItems ==
    {BatchExtractionItem("oab", SchemaNome, "a.pdf"),
     BatchExtractionItem("oab", SchemaNome, "/data/gone.pdf")}

\* the batch runs with a store whose reads and writes succeed once the
\* client is connected and an API that answers; no entry expires while
\* the batch runs
BatchEnv == [ping |-> BOOLEAN, get |-> {TRUE}, set |-> {TRUE},
             api |-> {"parsed"}]

InitBatch ==
    /\ \E k \in KValues : settings = Settings(k, PyStr("sk-test"), PyNone)
    /\ cache = <<>>
    /\ inv = [p \in Slots |-> IdleInv]
    /\ \E n \in 1 .. MaxItems : items \in [1 .. n -> BatchItems]
    /\ use_cache \in BOOLEAN
    /\ task = [i \in Slots |-> [pc |-> "none", result |-> NoBatchResult]]
    /\ semaphore = [value |-> 0, waiters |-> <<>>]
    /\ ready = <<>>
    /\ done = <<>>
    /\ gen = [pc |-> "created", completed_count |-> 0, successful_count |-> 0,
              failed_count |-> 0]
    /\ out = <<>>
    /\ finish_order = <<>>
    /\ frame = NoFrame

InBatch(A) == A /\ UNCHANGED <<batchVars, frame>>

NextBatch ==
    \/ GenStart
    \/ \E i \in Slots : TaskStart(i)
    \/ \E i \in Slots : task[i].pc = "running" /\ InBatch(Lookup(i, BatchEnv))
    \/ \E i \in Slots : task[i].pc = "running" /\ InBatch(Compute(i, BatchEnv))
    \/ \E i \in Slots : task[i].pc = "running" /\ InBatch(Store(i, BatchEnv))
    \/ \E i \in Slots : ExecutorDone(i)
    \/ TaskFinish
    \/ GenYield
    \/ GenResume
    \/ GenSummary
    \/ GenClose

SpecBatch == InitBatch /\ [][NextBatch]_vars

(***************************************************************************)
(***************************************************************************)
(* Single calls of the functions of the core.  `frame` holds the call: its *)
(* arguments, then what it returned or raised; pipeline and batch rest.    *)
(***************************************************************************)
restVars == <<inv, items, use_cache, task, semaphore, ready, done, gen, out,
              finish_order>>

AtRest ==
    /\ inv = [p \in Slots |-> IdleInv]
    /\ items = <<>>
    /\ use_cache = TRUE
    /\ task = [i \in Slots |-> [pc |-> "none"]]
    /\ semaphore = [value |-> 0, waiters |-> <<>>]
    /\ ready = <<>>
    /\ done = <<>>
    /\ gen = [pc |-> "none"]
    /\ out = <<>>
    /\ finish_order = <<>>

\* the settings of a deployment with and without an API key
KeySettings ==
    {Settings(DefaultMaxConcurrentExtractions, PyStr("sk-test"), PyStr(BasePath)),
     Settings(DefaultMaxConcurrentExtractions, PyNone, PyNone)}

FieldLabels == {"oab", "rg"}
FieldSchemas == {SchemaEmpty, SchemaNome, SchemaTwo, SchemaTwoReversed,
                 SchemaReserved}
DocLayouts == {load("/cwd/a.pdf").layout_text, load("/base/b.pdf").layout_text}

(***************************************************************************)
(* extract_fields(label, extraction_schema, doc_layout)                    *)
(***************************************************************************)
InitFields ==
    /\ settings \in KeySettings
    /\ cache = <<>>
    /\ AtRest
    /\ \E label \in FieldLabels, extraction_schema \in FieldSchemas,
          doc_layout \in DocLayouts :
          frame = [pc |-> "called", fn |-> "extract_fields", label |-> label,
                   extraction_schema |-> extraction_schema,
                   doc_layout |-> doc_layout, api |-> "",
                   ret |-> <<>>, exc |-> NoException]

ExtractFields ==
    /\ frame.pc = "called"
    /\ frame.fn = "extract_fields"
    /\ IF extract_fields_raises(frame.extraction_schema) # NoException
       THEN frame' = [frame EXCEPT !.pc = "raised",
                         !.exc = extract_fields_raises(frame.extraction_schema)]
       ELSE \E api \in ApiOutcomes(frame.extraction_schema) :
               frame' = [frame EXCEPT !.pc = "returned",
                            !.api = IF Truthy(settings.openai_api_key)
                                    THEN api.kind ELSE "",
                            !.ret = extract_fields(frame.label,
                                        frame.extraction_schema,
                                        frame.doc_layout, api)]
    /\ UNCHANGED <<settings, cache, restVars>>

NextFields == ExtractFields

SpecFields == InitFields /\ [][NextFields]_vars

(***************************************************************************)
(* The cache key of two requests (pipeline.py, lines 45-47)                *)
(***************************************************************************)
KeyLabels == {"oab", "rg", "oab:rg"}
KeyBytes == {"%PDF-a", "%PDF-b", ""}
KeySchemas == {SchemaEmpty, SchemaNome, SchemaNomeFull, SchemaInscricao,
               SchemaTwo, SchemaTwoReversed}

KeyInputs ==
    [label : KeyLabels, pdf_bytes : KeyBytes, extraction_schema : KeySchemas]

\* pdf_hash, schema_hash and cache_key as run_extraction computes them
cache_key(x) ==
    LET pdf_hash == hash_pdf_bytes(x.pdf_bytes)
        schema_hash == hash_extraction_schema(x.extraction_schema)
    IN [pdf_hash |-> pdf_hash, schema_hash |-> schema_hash,
        cache_key |-> CacheKey(x.label, pdf_hash, schema_hash)]

NoKey == [pdf_hash |-> "", schema_hash |-> "", cache_key |-> ""]

InitKey ==
    /\ settings \in KeySettings
    /\ cache = <<>>
    /\ AtRest
    /\ \E a \in KeyInputs, b \in KeyInputs :
          frame = [pc |-> "called", fn |-> "cache_key", a |-> a, b |-> b,
                   first |-> NoKey, again |-> NoKey, other |-> NoKey]

\* the key of request a, computed twice, and the key of request b
ComputeKeys ==
    /\ frame.pc = "called"
    /\ frame.fn = "cache_key"
    /\ frame' = [frame EXCEPT !.pc = "returned",
                    !.first = cache_key(frame.a),
                    !.again = cache_key(frame.a),
                    !.other = cache_key(frame.b)]
    /\ UNCHANGED <<settings, cache, restVars>>

NextKey == ComputeKeys

SpecKey == InitKey /\ [][NextKey]_vars

(***************************************************************************)
(* A constructed CacheClient used by one caller (src/core/cache.py)        *)
(***************************************************************************)
CacheKeys == {"k1", "k2"}

\* the strings handed to set: two JSON texts and one that is not JSON
SetValues == {RawText("null"), RawText("\"x\""), RawText("{bad")}

\* the objects handed to set_json: a result document and bytes
SetObjects ==
    {ExtractionResult("oab", << <<"nome", PyStr("Joao")>> >>, NoMeta),
     PyBytes("x")}

\* the ttl_seconds argument: left out, or passed
TtlArgs == {PyNone, PyInt(0), PyInt(60)}

\* the parameter's value: `ttl_seconds: int = 600`
TtlSeconds(ttl_arg) == IF ttl_arg = PyNone THEN DefaultTtl ELSE ttl_arg.v

NoEntry == [value |-> RawText(""), ttl |-> -1, by |-> -1]

\* the entry under a key in a store
EntryOf(store, key) == IF key \in DOMAIN store THEN store[key] ELSE NoEntry

CacheFrame(fn, key, value, ttl_arg, transport_ok, ret, entry) ==
    [pc |-> "returned", fn |-> fn, key |-> key, value |-> value,
     ttl_arg |-> ttl_arg, transport_ok |-> transport_ok,
     ret |-> ret, entry |-> entry]

InitCache ==
    /\ settings = Settings(DefaultMaxConcurrentExtractions, PyStr("sk-test"),
                           PyStr(BasePath))
    /\ cache = <<>>
    /\ AtRest
    /\ frame = [pc |-> "constructed", fn |-> "CacheClient"]

\* client.health_check()
CallHealthCheck ==
    /\ \E ping_ok \in BOOLEAN :
          frame' = CacheFrame("health_check", "", RawText(""), PyNone, ping_ok,
                              health_check(ping_ok), NoEntry)
    /\ UNCHANGED <<settings, cache, restVars>>

\* client.get(key); `entry` is the store's entry at the time of the call
CallGet ==
    /\ \E key \in CacheKeys, transport_ok \in BOOLEAN :
          frame' = CacheFrame("get", key, RawText(""), PyNone, transport_ok,
                              CacheGet(key, transport_ok), EntryOf(cache, key))
    /\ UNCHANGED <<settings, cache, restVars>>

\* client.get_json(key)
CallGetJson ==
    /\ \E key \in CacheKeys, transport_ok \in BOOLEAN :
          frame' = CacheFrame("get_json", key, RawText(""), PyNone, transport_ok,
                              get_json(key, transport_ok), EntryOf(cache, key))
    /\ UNCHANGED <<settings, cache, restVars>>

\* client.set(key, value) and client.set(key, value, ttl_seconds); `entry`
\* is the store's entry after the call
CallSet ==
    /\ \E key \in CacheKeys, value \in SetValues, ttl_arg \in TtlArgs,
          transport_ok \in BOOLEAN :
          /\ cache' = CacheSet(key, value, TtlSeconds(ttl_arg), transport_ok, -1)
          /\ frame' = CacheFrame("set", key, value, ttl_arg, transport_ok,
                                 CacheSetReturns(transport_ok),
                                 EntryOf(cache', key))
    /\ UNCHANGED <<settings, restVars>>

\* client.set_json(key, obj) and client.set_json(key, obj, ttl_seconds)
CallSetJson ==
    /\ \E key \in CacheKeys, obj \in SetObjects, ttl_arg \in TtlArgs,
          transport_ok \in BOOLEAN :
          /\ cache' = set_json(key, obj, TtlSeconds(ttl_arg), transport_ok, -1)
          /\ frame' = CacheFrame("set_json", key, obj, ttl_arg,
                                 transport_ok,
                                 set_json_returns(obj, transport_ok),
                                 EntryOf(cache', key))
    /\ UNCHANGED <<settings, restVars>>

NextCache ==
    \/ CallHealthCheck
    \/ CallGet
    \/ CallGetJson
    \/ CallSet
    \/ CallSetJson
    \/ \E key \in DOMAIN cache : Expire(key) /\ UNCHANGED <<batchVars, frame>>

SpecCache == InitCache /\ [][NextCache]_vars

(***************************************************************************)
(* PdfExtractor.load on an open document (src/core/extractor.py)           *)
(***************************************************************************)
MaxWords == 3

\* pages of one word, over every box of whole coordinates on the page
ZonePages == {<<3, 6>>, <<2, 4>>}

ZoneBoxes(width, height) ==
    {<<x0, top, x1, bottom>> :
        x0 \in 0 .. width, top \in 0 .. height,
        x1 \in 0 .. width, bottom \in 0 .. height}

ZonePdfs ==
    UNION {{Pdf(<<Page(wh[1], wh[2],
                       <<RawWord("w", b[1], b[2], b[3], b[4])>>, 0)>>) :
               b \in {c \in ZoneBoxes(wh[1], wh[2]) : c[1] <= c[3] /\ c[2] <= c[4]}} :
           wh \in ZonePages}

\* the boxes of the unit tests on an A4 page, and a box around its centre
A4Pdfs ==
    {Pdf(<<Page(595, 842, <<RawWord("w", b[1], b[2], b[3], b[4])>>, 0)>>) :
        b \in {<<50, 50, 100, 70>>, <<250, 400, 350, 420>>,
               <<500, 750, 550, 800>>, <<297, 420, 298, 422>>}}

\* a page with one word in each cell of the 3 x 3 grid
GridPdf ==
    Pdf(<<Page(3, 3,
        [n \in 1 .. 9 |->
            LET x == (n - 1) % 3
                y == (n - 1) \div 3
            IN RawWord("w", x, y, x + 1, y + 1)], 0)>>)

\* pages of up to MaxWords words whose tops lie around the tolerance
LineTops == {0, 4, 5, 6, 8}
LineWords ==
    {RawWord(IF x0 = 0 THEN "a" ELSE "b", x0, top, x0 + 1, top + 2) :
        x0 \in {0, 1}, top \in LineTops}

LinePdfs ==
    UNION {{Pdf(<<Page(30, 30, ws, 0)>>) : ws \in [1 .. n -> LineWords]} :
           n \in 1 .. MaxWords}

\* documents without pages, without words on the first page, and with words
\* on a second page
PagePdfs ==
    LET blank == Page(3, 6, <<>>, 0)
        front == Page(3, 6, <<RawWord("front", 0, 0, 1, 1)>>, 0)
        back == Page(3, 6, <<RawWord("back", 0, 0, 1, 1),
                             RawWord("back", 2, 5, 3, 6)>>, 1)
    IN {Pdf(<<>>), Pdf(<<blank>>), Pdf(<<blank, back>>), Pdf(<<blank, blank>>),
        Pdf(<<front, back>>), Pdf(<<front, blank>>)}

Pdfs == ZonePdfs \cup A4Pdfs \cup {GridPdf} \cup LinePdfs \cup PagePdfs

InitLoad ==
    /\ settings = Settings(DefaultMaxConcurrentExtractions, PyStr("sk-test"),
                           PyStr(BasePath))
    /\ cache = <<>>
    /\ AtRest
    /\ \E pdf \in Pdfs :
          frame = [pc |-> "called", fn |-> "load", pdf |-> pdf, ret |-> NoDoc,
                   lines |-> <<>>, exc |-> NoException]

\* load from `with pdfplumber.open(...)` on; `lines` keeps the members of
\* the lines that were grouped
Load ==
    /\ frame.pc = "called"
    /\ frame.fn = "load"
    /\ IF load_pdf_raises(frame.pdf) # NoException
       THEN frame' = [frame EXCEPT !.pc = "raised",
                                   !.exc = load_pdf_raises(frame.pdf)]
       ELSE LET doc == load_pdf(frame.pdf, "/cwd/doc.pdf") IN
            frame' = [frame EXCEPT !.pc = "returned", !.ret = doc,
                                   !.lines = line_members(doc.words)]
    /\ UNCHANGED <<settings, cache, restVars>>

NextLoad == Load

SpecLoad == InitLoad /\ [][NextLoad]_vars

(* Properties of the batch orchestrator (checked under SpecBatch)          *)
(***************************************************************************)
IsItemResult(r) == "index" \in DOMAIN r
IsSummary(r) == "total" \in DOMAIN r

\* positions of `out` holding item results
ItemPositions == {a \in 1 .. Len(out) : IsItemResult(out[a])}

\* the indices yielded so far, in yield order
YieldedIndices == [a \in 1 .. Cardinality(ItemPositions) |-> out[a].index]

CountStatus(status) ==
    Cardinality({a \in ItemPositions : out[a].status = status})

K == settings.max_concurrent_extractions

\* items holding a semaphore slot
Holders == {i \in Indices : task[i].pc \in {"running", "resuming"}}

\* C1: the item results yielded so far carry pairwise distinct indices of
\* the batch, and when the summary is there it is preceded by exactly N item
\* results whose indices are exactly 0..N-1.
C1_BatchCompleteness ==
    /\ \A a \in ItemPositions : out[a].index \in Indices
    /\ \A a, b \in ItemPositions : a # b => out[a].index # out[b].index
    /\ \A s \in 1 .. Len(out) :
          IsSummary(out[s]) =>
             /\ s = N + 1
             /\ ItemPositions = 1 .. N
             /\ {out[a].index : a \in 1 .. N} = Indices

\* a finished batch of at least two items with a completed and a failed item
C1_Witness ==
    /\ gen.pc = "summary"
    /\ N >= 2
    /\ \E a, b \in ItemPositions :
          out[a].status = "completed" /\ out[b].status = "error"

\* C2: a BatchSummary is the last element yielded, comes after all N item
\* results, and reads status "done", total N, successful = number of
\* completed results, failed = number of error results, successful + failed
\* = total; a closed generator has yielded it.
C2_SummaryLast ==
    /\ \A s \in 1 .. Len(out) :
          IsSummary(out[s]) =>
             /\ s = Len(out)
             /\ s = N + 1
             /\ out[s].status = "done"
             /\ out[s].total = N
             /\ out[s].successful = CountStatus("completed")
             /\ out[s].failed = CountStatus("error")
             /\ out[s].successful + out[s].failed = out[s].total
    /\ gen.pc \in {"summary", "closed"} <=>
          (Len(out) = N + 1 /\ IsSummary(out[Len(out)]))

\* a closed generator whose summary counts successes and failures
C2_Witness ==
    /\ gen.pc = "closed"
    /\ out[Len(out)].successful >= 1
    /\ out[Len(out)].failed >= 1

\* C3: with K >= 1 at most K items hold a semaphore slot, the free slots
\* and the held ones add up to K, and an item waits only when no slot is
\* free.
C3_ConcurrencyCap ==
    (K >= 1 /\ gen.pc # "created") =>
        /\ Cardinality(Holders) <= K
        /\ semaphore.value + Cardinality(Holders) = K
        /\ semaphore.waiters # <<>> => semaphore.value = 0
        /\ \A i \in Indices :
              task[i].pc = "waiting" <=>
                 \E w \in 1 .. Len(semaphore.waiters) : semaphore.waiters[w] = i

\* all K slots taken while another item waits
C3_Witness ==
    /\ K >= 1
    /\ Cardinality(Holders) = K
    /\ \A i \in Holders : inv[i].pc \in {"called", "compute", "store"}
    /\ semaphore.waiters # <<>>

\* C4: the result of a finished item is determined by its own run alone: a
\* raised exception gives status "error" with the item's index and label, no
\* fields, no meta and error "<type>: <message>"; a returned result gives
\* status "completed" with its fields and meta; and no item's exception
\* fails the generator.
C4_ErrorIsolation ==
    /\ \A i \in Indices :
          task[i].pc = "done" =>
             /\ task[i].result.index = i
             /\ task[i].result.label = Item(i).label
             /\ inv[i].pc = "raised" =>
                   /\ task[i].result.status = "error"
                   /\ task[i].result.fields = PyNone
                   /\ task[i].result.meta = PyNone
                   /\ task[i].result.error =
                         PyStr(inv[i].exc.type \o ": " \o inv[i].exc.msg)
             /\ inv[i].pc = "returned" =>
                   /\ task[i].result.status = "completed"
                   /\ task[i].result.fields.v = inv[i].result.fields
                   /\ task[i].result.meta.v = inv[i].result.meta
                   /\ task[i].result.error = PyNone
    /\ \A a \in ItemPositions : out[a] = task[out[a].index].result
    /\ gen.pc = "failed" => K < 0

\* an item that failed first and a sibling that completed after it
C4_Witness ==
    \E a, b \in ItemPositions :
        /\ a < b
        /\ out[a].status = "error"
        /\ out[a].error = PyStr("FileNotFoundError: [Errno 2] No such file or directory: '/data/gone.pdf'")
        /\ out[b].status = "completed"

\* C5: the indices are yielded in the order in which the runs ended: the
\* yielded indices are a prefix of the completion order.
C5_CompletionOrder ==
    /\ Len(YieldedIndices) <= Len(finish_order)
    /\ \A a \in 1 .. Len(YieldedIndices) : YieldedIndices[a] = finish_order[a]

\* a later item yielded before an earlier one
C5_Witness ==
    \E a, b \in ItemPositions : a < b /\ out[a].index > out[b].index

(***************************************************************************)
(* Properties of the pipeline (checked under Spec)                         *)
(***************************************************************************)
\* C6: when the lookup finds a payload the invocation has returned it with
\* cache_hit = true and cache_key = the computed key, without layout
\* extraction or a field-extractor call; a result with cache_hit = true was
\* produced with no field-extractor call; no invocation calls the field
\* extractor more than once.
C6_HitSkipsExtraction ==
    \A p \in Slots :
        /\ inv[p].found =>
              /\ inv[p].pc = "returned"
              /\ inv[p].result.meta.cache_hit = TRUE
              /\ inv[p].result.meta.cache_key = inv[p].cache_key
              /\ inv[p].extract_calls = 0
              /\ inv[p].llm_calls = 0
        /\ (inv[p].pc = "returned" /\ inv[p].result.meta.cache_hit) =>
              inv[p].llm_calls = 0
        /\ inv[p].llm_calls <= 1
        /\ inv[p].extract_calls <= 1

\* an invocation served from the cache
C6_Witness ==
    \E p \in Slots :
        /\ inv[p].use_cache
        /\ inv[p].found
        /\ inv[p].pc = "returned"
        /\ inv[p].llm_calls = 0

\* C7: an invocation served from the entry that invocation w wrote: w ran on
\* a miss with the same key, label, PDF bytes and schema mapping (the same
\* names with the same descriptions) and returned cache_hit = false, and the
\* hit returns the same label and field values with cache_hit = true.
C7_CacheRoundTrip ==
    \A q \in Slots :
        (inv[q].pc = "returned" /\ inv[q].found) =>
            LET w == inv[q].read_from IN
            /\ w \in Slots
            /\ inv[w].pc = "returned"
            /\ inv[w].wrote
            /\ inv[w].cache_key = inv[q].cache_key
            /\ inv[w].request.label = inv[q].request.label
            /\ LET ws == inv[w].request.extraction_schema
                   qs == inv[q].request.extraction_schema
               IN  {ws[i] : i \in DOMAIN ws} = {qs[i] : i \in DOMAIN qs}
            /\ inv[w].pdf_hash = inv[q].pdf_hash
            /\ inv[w].result.meta.cache_hit = FALSE
            /\ inv[q].result.meta.cache_hit = TRUE
            /\ inv[q].result.fields = inv[w].result.fields
            /\ inv[q].result.label = inv[w].result.label

\* a hit that returns a non-null field value computed by an earlier miss
C7_Witness ==
    \E q \in Slots :
        /\ inv[q].pc = "returned"
        /\ inv[q].found
        /\ inv[q].read_from # q
        /\ inv[q].result.fields = << <<"nome", PyStr("Joao")>> >>

\* C8: with use_cache = false an invocation never reads the cache, and when
\* it returns it has computed the result itself (one extraction, one field
\* extractor call, cache_hit = false) and attempted exactly one write; the
\* entry it wrote under its key is the encoded result.
C8_NoReadAlwaysWrite ==
    \A p \in Slots :
        (inv[p].pc # "idle" /\ ~inv[p].use_cache) =>
            /\ inv[p].reads = 0
            /\ ~inv[p].found
            /\ inv[p].pc = "returned" =>
                  /\ inv[p].writes = 1
                  /\ inv[p].extract_calls = 1
                  /\ inv[p].llm_calls = 1
                  /\ inv[p].result.meta.cache_hit = FALSE
                  /\ (inv[p].wrote /\ inv[p].cache_key \in DOMAIN cache
                        /\ cache[inv[p].cache_key].by = p) =>
                        cache[inv[p].cache_key].value = json_dumps(inv[p].result)
            /\ inv[p].pc # "returned" => inv[p].writes = 0

\* an invocation with use_cache = false that overwrote the entry another
\* invocation had stored under the same key
C8_Witness ==
    \E p, q \in Slots :
        /\ p # q
        /\ inv[q].pc = "returned" /\ inv[q].wrote
        /\ inv[p].pc = "returned" /\ inv[p].wrote /\ ~inv[p].use_cache
        /\ inv[p].cache_key = inv[q].cache_key
        /\ inv[p].result.fields # inv[q].result.fields
        /\ cache[inv[p].cache_key].by = p

\* the request names a PDF that resolves to a readable, non-empty document
ResolvableNonEmpty(request) ==
    /\ Truthy(request.pdf_path)
    /\ Exists(resolve_pdf_path(request.pdf_path.v))
    /\ load_raises(resolve_pdf_path(request.pdf_path.v)) = NoException

\* C9: no cache failure reaches the caller: an invocation on a resolvable,
\* non-empty PDF never ends with an exception.
C9_CacheFailuresAbsorbed ==
    \A p \in Slots :
        (inv[p].pc = "raised" /\ ResolvableNonEmpty(inv[p].request)) =>
            FALSE

ExactlyOneSource(request) ==
    (request.pdf_path = PyNone) # (request.pdf_bytes = PyNone)

\* C10: run_extraction raises its invalid-request error only for a request
\* that does not carry exactly one PDF source.
C10_OneSourceAccepted ==
    \A p \in Slots :
        (inv[p].pc = "raised" /\ inv[p].exc = PdfPathRequired) =>
            ~ExactlyOneSource(inv[p].request)

(***************************************************************************)
(* Properties of the field extractor (checked under SpecFields)            *)
(***************************************************************************)
\* the field names of a schema or of a result mapping, in order
FieldNames(pairs) == [n \in 1 .. Len(pairs) |-> pairs[n][1]]

\* a call of extract_fields that failed: no key, API error, empty answer
FailedCall ==
    /\ frame.fn = "extract_fields"
    /\ frame.pc = "returned"
    /\ (~Truthy(settings.openai_api_key) \/ frame.api \in {"error", "empty"})

\* C11: a call of extract_fields never ends with an exception; what it
\* returns has exactly the schema's field names, and after a failure every
\* field is null with an error tag in its details.
C11_ExtractFieldsNeverRaises ==
    frame.fn = "extract_fields" =>
        /\ frame.pc # "raised"
        /\ frame.pc = "returned" =>
              FieldNames(frame.ret) = FieldNames(frame.extraction_schema)
        /\ FailedCall =>
              \A n \in 1 .. Len(frame.ret) :
                  /\ frame.ret[n][2].value = PyNone
                  /\ "error" \in DOMAIN frame.ret[n][2].details

(***************************************************************************)
(* Properties of the cache key (checked under SpecKey)                     *)
(***************************************************************************)
\* a schema as the set of its (name, description) pairs
Pairs(schema) == {schema[n] : n \in 1 .. Len(schema)}

\* C12: the key reads "extract:{label}:{pdf_hash}:{schema_hash}"; computed
\* twice it is the same string; two requests with the same label, the same
\* bytes and the same set of schema pairs have the same schema hash and
\* key, whatever the order of the pairs; requests that differ in the label,
\* the bytes or a schema name or description have different keys.
C12_KeyDeterminism ==
    (frame.fn = "cache_key" /\ frame.pc = "returned") =>
        /\ frame.first.cache_key =
              "extract:" \o frame.a.label \o ":" \o frame.first.pdf_hash
                  \o ":" \o frame.first.schema_hash
        /\ frame.again = frame.first
        /\ Pairs(frame.a.extraction_schema) = Pairs(frame.b.extraction_schema)
              <=> frame.first.schema_hash = frame.other.schema_hash
        /\ frame.a.pdf_bytes = frame.b.pdf_bytes
              <=> frame.first.pdf_hash = frame.other.pdf_hash
        /\ (/\ frame.a.label = frame.b.label
            /\ frame.a.pdf_bytes = frame.b.pdf_bytes
            /\ Pairs(frame.a.extraction_schema) = Pairs(frame.b.extraction_schema))
              <=> frame.first.cache_key = frame.other.cache_key

\* two schemas with the same pairs in different order, hashed to one key
C12_Witness ==
    /\ frame.fn = "cache_key"
    /\ frame.pc = "returned"
    /\ frame.a.extraction_schema # frame.b.extraction_schema
    /\ Len(frame.a.extraction_schema) = 2
    /\ Pairs(frame.a.extraction_schema) = Pairs(frame.b.extraction_schema)
    /\ frame.first.cache_key = frame.other.cache_key

(***************************************************************************)
(* Properties of the cache client (checked under SpecCache)                *)
(***************************************************************************)
\* the call found an entry under its key and the transport worked
ReadReached == frame.transport_ok /\ frame.entry # NoEntry

\* C13: no call of the read side ends with an exception.  get returns the
\* stored string, or None when the key is missing or the transport fails;
\* get_json returns the decoded object (the result document that was
\* stored, the string of a JSON string, None for null), or None when the
\* key is missing, the transport fails or the payload is not JSON;
\* health_check returns the ping's answer, False when the ping fails.
C13_ReadSideNeverRaises ==
    /\ frame.pc # "raised"
    /\ frame.fn = "get" =>
          frame.ret = IF ReadReached
                      THEN [t |-> "str", v |-> frame.entry.value]
                      ELSE PyNone
    /\ frame.fn = "get_json" =>
          IF ~ReadReached THEN frame.ret = PyNone
          ELSE IF frame.entry.value = RawText("{bad") THEN frame.ret = PyNone
          ELSE IF frame.entry.value = RawText("null") THEN frame.ret = PyNone
          ELSE IF frame.entry.value = RawText("\"x\"") THEN frame.ret = PyStr("x")
          ELSE /\ frame.ret.t = "dict"
               /\ frame.ret.v \in SetObjects
               /\ json_dumps(frame.ret.v) = frame.entry.value
    /\ frame.fn = "health_check" => frame.ret = frame.transport_ok

\* get_json reached a payload that is not JSON and answered None
C13_Witness ==
    /\ frame.fn = "get_json"
    /\ ReadReached
    /\ frame.entry.value = RawText("{bad")
    /\ frame.ret = PyNone

\* the call failed: the transport, or the encoding of the object
WriteFailed ==
    \/ ~frame.transport_ok
    \/ (frame.fn = "set_json" /\ frame.value = PyBytes("x"))

\* C14: set and set_json return a boolean and never raise; they return
\* False exactly when the transport or the encoding fails; after True the
\* entry holds the value (set_json: its dump) with the expiry ttl_seconds
\* when that is positive, 600 when it was left out, and no expiry when it
\* is 0.
C14_WriteSide ==
    frame.fn \in {"set", "set_json"} =>
        /\ frame.pc = "returned"
        /\ frame.ret \in BOOLEAN
        /\ frame.ret = ~WriteFailed
        /\ frame.ret =>
              /\ frame.entry.value = IF frame.fn = "set" THEN frame.value
                                     ELSE json_dumps(frame.value)
              /\ frame.entry.ttl =
                    IF frame.ttl_arg = PyNone THEN 600
                    ELSE IF frame.ttl_arg.v > 0 THEN frame.ttl_arg.v
                    ELSE NoExpiry
        /\ (frame.entry # NoEntry /\ frame.entry.ttl = NoExpiry) =>
              ~ENABLED Expire(frame.key) \/ cache[frame.key] # frame.entry

\* a write with ttl_seconds = 0 came back True and its entry has no expiry,
\* while the entry under the other key carries the default expiry
C14_Witness ==
    /\ frame.fn = "set"
    /\ frame.ret = TRUE
    /\ frame.ttl_arg = PyInt(0)
    /\ frame.entry.ttl = NoExpiry
    /\ cache[frame.key] = frame.entry
    /\ \E k \in DOMAIN cache : cache[k].ttl = 600

(***************************************************************************)
(* Properties of the layout extraction (checked under SpecLoad)            *)
(***************************************************************************)
Loaded == frame.fn = "load" /\ frame.pc = "returned"

\* the third of an extent in which a centre lies, the centre given as twice
\* its value: 1 below a third, 2 from one third to below two thirds, else 3
Band(twice_centre, extent) ==
    IF 3 * twice_centre < 2 * extent THEN 1
    ELSE IF 3 * twice_centre < 4 * extent THEN 2
    ELSE 3

\* the label of every (vertical, horizontal) pair of bands
ZoneTable ==
    << <<"TOP-LEFT", "TOP-CENTER", "TOP-RIGHT">>,
       <<"LEFT", "CENTER", "RIGHT">>,
       <<"BOTTOM-LEFT", "BOTTOM-CENTER", "BOTTOM-RIGHT">> >>

ZoneLabels == {ZoneTable[v][h] : v \in 1 .. 3, h \in 1 .. 3}

\* the zones of the words of the loaded page
LoadedZones == {frame.ret.words[n].zone : n \in 1 .. Len(frame.ret.words)}

\* every word of the loaded page has the label of its bands; a box centred
\* on the page's midpoints is CENTER, one centred in the top-left ninth is
\* TOP-LEFT
ZoneRule ==
    \A n \in 1 .. Len(frame.ret.words) :
        LET bbox == frame.ret.words[n].bbox
            zone == frame.ret.words[n].zone
            W == frame.ret.meta.page_width
            H == frame.ret.meta.page_height
        IN (W > 0 /\ H > 0) =>
            /\ zone = ZoneTable[Band(bbox[2] + bbox[4], H)][Band(bbox[1] + bbox[3], W)]
            /\ (bbox[1] + bbox[3] = W /\ bbox[2] + bbox[4] = H) => zone = "CENTER"
            /\ (3 * (bbox[1] + bbox[3]) < 2 * W /\ 3 * (bbox[2] + bbox[4]) < 2 * H)
                  => zone = "TOP-LEFT"

\* C15 (as amended): the zone of every word follows the thirds of the page
\* (LEFT below W/3, CENTER from W/3 to below 2W/3, else RIGHT; TOP, MIDDLE,
\* BOTTOM alike; MIDDLE gives the bare horizontal name) and is one of
\* exactly 9 labels.
C15_ZoneNineLabels ==
    Loaded =>
        /\ ZoneRule
        /\ LoadedZones \subseteq ZoneLabels
        /\ Cardinality(ZoneLabels) = 9

\* a page whose words carry all 9 labels
C15_Witness ==
    /\ Loaded
    /\ Len(frame.ret.words) = 9
    /\ LoadedZones = ZoneLabels

\* C15 (as stated): the zones follow the thirds of the page and are always
\* among exactly 8 labels: no page shows more than 8.
C15_ZoneEightLabels ==
    Loaded =>
        /\ ZoneRule
        /\ Cardinality(LoadedZones) <= 8

\* the tops of the members of a line, in the order of the walk
Tops(line) == [n \in 1 .. Len(line) |-> line[n].bbox[2]]

\* the members of all lines, in the order of the walk
Walked(lines) ==
    LET RECURSIVE cat(_)
        cat(n) == IF n > Len(lines) THEN <<>> ELSE lines[n] \o cat(n + 1)
    IN cat(1)

Occurrences(seq, x) == Cardinality({n \in 1 .. Len(seq) : seq[n] = x})

\* the walk visits the words of the page, each once, in the order of
\* (top, left)
WalkSorted ==
    LET walked == Walked(frame.lines) IN
    /\ Len(walked) = Len(frame.ret.words)
    /\ \A n \in 1 .. Len(walked) :
          Occurrences(walked, walked[n]) = Occurrences(frame.ret.words, walked[n])
    /\ \A a, b \in 1 .. Len(walked) :
          a < b =>
             \/ walked[a].bbox[2] < walked[b].bbox[2]
             \/ /\ walked[a].bbox[2] = walked[b].bbox[2]
                /\ walked[a].bbox[1] <= walked[b].bbox[1]

\* every member lies within the tolerance of the word that started its line,
\* and the word that starts the next line lies beyond it
LineStartRule ==
    /\ \A k \in 1 .. Len(frame.lines) :
          /\ frame.lines[k] # <<>>
          /\ \A n \in 1 .. Len(frame.lines[k]) :
                Abs(Tops(frame.lines[k])[n] - Tops(frame.lines[k])[1]) <= 5
    /\ \A k \in 1 .. Len(frame.lines) - 1 :
          Abs(Tops(frame.lines[k + 1])[1] - Tops(frame.lines[k])[1]) > 5

\* a line whose first and last member lie more than the tolerance apart
Drifts(lines) ==
    \E k \in 1 .. Len(lines) :
        Abs(Tops(lines[k])[Len(lines[k])] - Tops(lines[k])[1]) > 5

\* C16 (as amended): the walk goes through the words sorted by (top, left)
\* and compares every top with the top of the word that started the current
\* line (tolerance 5), starting a new line otherwise; so no line drifts: the
\* tops of the members of one line never lie more than 5 points apart.
C16_LinesAnchored ==
    Loaded =>
        /\ WalkSorted
        /\ LineStartRule
        /\ ~Drifts(frame.lines)
        /\ \A k \in 1 .. Len(frame.lines) :
              \A a, b \in 1 .. Len(frame.lines[k]) :
                  Abs(Tops(frame.lines[k])[a] - Tops(frame.lines[k])[b]) <= 5

\* a word within the tolerance of the word before it, yet beyond the
\* tolerance of the line's first word, started a new line
C16_Witness ==
    /\ Loaded
    /\ \E k \in 1 .. Len(frame.lines) - 1 :
          LET line == frame.lines[k]
              next == frame.lines[k + 1]
          IN /\ Len(line) >= 2
             /\ Tops(next)[1] - Tops(line)[Len(line)] <= 5
             /\ Tops(next)[1] - Tops(line)[1] > 5

\* C16 (as stated): the same walk, and there are inputs for which a line
\* holds members whose tops lie more than 5 points apart from first to last.
C16_LineCanDrift ==
    Loaded =>
        /\ WalkSorted
        /\ LineStartRule
        /\ \E pdf \in Pdfs :
              /\ load_pdf_raises(pdf) = NoException
              /\ Drifts(line_members(load_pdf(pdf, "/cwd/doc.pdf").words))

\* the document cut down to its first page
FirstPageOnly(pdf) == Pdf(<<pdf.pages[1]>>)

\* C20: load raises the empty-document ValueError exactly when the document
\* has no page or its first page has no word; otherwise it returns what it
\* returns for the first page alone (words of later pages change nothing),
\* with word_count and line_count the numbers of words and lines of the
\* first page.
C20_EmptyDocument ==
    (frame.fn = "load" /\ frame.pc # "called") =>
        LET empty == \/ Len(frame.pdf.pages) = 0
                     \/ frame.pdf.pages[1].words = <<>>
        IN /\ frame.pc = "raised" <=> empty
           /\ frame.pc = "raised" =>
                 /\ frame.exc.type = "ValueError"
                 /\ frame.exc.msg \in {"Empty PDF: no pages found",
                                       "Empty PDF: no text content"}
           /\ frame.pc = "returned" =>
                 /\ frame.ret = load_pdf(FirstPageOnly(frame.pdf), "/cwd/doc.pdf")
                 /\ frame.ret.meta.word_count = Len(frame.pdf.pages[1].words)
                 /\ frame.ret.meta.line_count = Len(frame.lines)
                 /\ frame.ret.meta.pages = 1
                 /\ \A n \in 1 .. Len(frame.ret.words) :
                       frame.ret.words[n].text = frame.pdf.pages[1].words[n].text

\* a document whose first page is blank raised although its second page
\* has words
C20_Witness ==
    /\ frame.fn = "load"
    /\ frame.pc = "raised"
    /\ Len(frame.pdf.pages) = 2
    /\ frame.pdf.pages[2].words # <<>>
    /\ frame.exc = Exception("ValueError", "Empty PDF: no text content")


(***************************************************************************)
(* Properties of run_extraction over successive calls (checked under       *)
(* SpecSerial)                                                             *)
(***************************************************************************)
\* C17: a call of run_extraction that returns, returns the field names of
\* its own request's extraction_schema, in the order of that schema, be the
\* result computed or served from the cache.
C17_FieldOrder ==
    inv[SerialCaller].pc = "returned" =>
        FieldNames(inv[SerialCaller].result.fields)
            = FieldNames(inv[SerialCaller].request.extraction_schema)


\* pytest.raises(match=...) for a pattern of plain text: the text occurs
\* somewhere in the message
Contains(msg, text) ==
    \E n \in 1 .. (Len(msg) - Len(text) + 1) :
        SubSeq(msg, n, n + Len(text) - 1) = text

\* a call whose request has the empty string as pdf_path and no pdf_bytes,
\* past the first statement of run_extraction
EmptyPathCall ==
    /\ inv[SerialCaller].pc \notin {"idle", "called"}
    /\ inv[SerialCaller].request.pdf_path = PyStr("")
    /\ inv[SerialCaller].request.pdf_bytes = PyNone

\* C18: run_extraction on a request with pdf_path "" and no pdf_bytes raises
\* ValueError with a message that says "Either pdf_path or pdf_bytes must be
\* provided".
C18_EmptyPathMessage ==
    EmptyPathCall =>
        /\ inv[SerialCaller].pc = "raised"
        /\ inv[SerialCaller].exc.type = "ValueError"
        /\ Contains(inv[SerialCaller].exc.msg,
                    "Either pdf_path or pdf_bytes must be provided")


\* a call of run_extraction past its first statement
Started == inv[SerialCaller].pc \notin {"idle", "called", "rejected"}

\* a call of run_extraction that went through layout extraction
Extracted == Started /\ inv[SerialCaller].extract_calls = 1

\* C19: run_extraction surfaces failures with their kind. A request the
\* constructor refuses raises ValueError and never reaches the pipeline; a
\* request without a pdf_path raises ValueError; a path that resolves to no
\* file raises FileNotFoundError; an exception of load or of extract_fields
\* leaves run_extraction unchanged; and a call that returns a result it
\* computed met no exception in load nor in extract_fields.
C19_FailuresSurface ==
    LET i == inv[SerialCaller]
        schema == i.request.extraction_schema
    IN
    /\ i.pc = "rejected" => i.exc.type = "ValueError"
    /\ Started => validate_pdf_source(i.request) = NoException
    /\ (Started /\ ~Truthy(i.request.pdf_path)) =>
           (i.pc = "raised" /\ i.exc.type = "ValueError")
    /\ (Started /\ Truthy(i.request.pdf_path)
          /\ ~Exists(resolve_pdf_path(i.request.pdf_path.v))) =>
           (i.pc = "raised" /\ i.exc.type = "FileNotFoundError")
    /\ (Extracted /\ load_raises(i.pdf_path) # NoException) =>
           (i.pc = "raised" /\ i.exc = load_raises(i.pdf_path))
    /\ (Extracted /\ load_raises(i.pdf_path) = NoException
          /\ extract_fields_raises(schema) # NoException) =>
           (i.pc = "raised" /\ i.exc = extract_fields_raises(schema))
    /\ i.pc = "returned" =>
           /\ i.exc = NoException
           /\ Truthy(i.request.pdf_path)
           /\ Exists(i.pdf_path)
           /\ ~i.found => /\ Extracted
                          /\ load_raises(i.pdf_path) = NoException
                          /\ extract_fields_raises(schema) = NoException

\* a call that raised the ValueError of load for a document without text
C19_Witness ==
    /\ Extracted
    /\ inv[SerialCaller].pc = "raised"
    /\ inv[SerialCaller].llm_calls = 0
    /\ inv[SerialCaller].exc = Exception("ValueError", "Empty PDF: no text content")


(***************************************************************************)
(* Keyword filter of the layout text (src/core/extractor.py)               *)
(***************************************************************************)
UpperCase == "ABCDEFGHIJKLMNOPQRSTUVWXYZ"
LowerCase == "abcdefghijklmnopqrstuvwxyz"

\* str.lower()
lower(s) ==
    LET low(c) == IF \E n \in 1 .. Len(UpperCase) : SubSeq(UpperCase, n, n) = c
                  THEN LET n == CHOOSE n \in 1 .. Len(UpperCase) :
                                    SubSeq(UpperCase, n, n) = c
                       IN SubSeq(LowerCase, n, n)
                  ELSE c
        RECURSIVE go(_)
        go(n) == IF n > Len(s) THEN "" ELSE low(SubSeq(s, n, n)) \o go(n + 1)
    IN go(1)

\* str.replace(old, new) for one character old
replace(s, old, new) ==
    LET RECURSIVE go(_)
        go(n) == IF n > Len(s) THEN ""
                 ELSE (IF SubSeq(s, n, n) = old THEN new ELSE SubSeq(s, n, n))
                      \o go(n + 1)
    IN go(1)

\* what str.split() and \s take for whitespace
Whitespace == {" ", "\t", "\n", "\r"}

\* str.split(sep): the pieces between the separators, empty ones included
split_on(s, sep) ==
    LET RECURSIVE go(_, _)
        go(n, piece) ==
            IF n > Len(s) THEN <<piece>>
            ELSE IF SubSeq(s, n, n) = sep THEN <<piece>> \o go(n + 1, "")
            ELSE go(n + 1, piece \o SubSeq(s, n, n))
    IN go(1, "")

\* str.split(): the pieces between runs of whitespace, none of them empty
split(s) ==
    LET RECURSIVE go(_, _)
        go(n, piece) ==
            IF n > Len(s) THEN (IF piece = "" THEN <<>> ELSE <<piece>>)
            ELSE IF SubSeq(s, n, n) \in Whitespace
            THEN (IF piece = "" THEN <<>> ELSE <<piece>>) \o go(n + 1, "")
            ELSE go(n + 1, piece \o SubSeq(s, n, n))
    IN go(1, "")

stopwords ==
    {"do", "da", "de", "o", "a", "para", "com", "em", "no", "na", "os", "as"}

MinKeywordLength == 3

\* the keywords of a schema: the parts of the field names and of the
\* descriptions that are no stopwords and longer than two characters
keywords(extraction_schema) ==
    LET Kept(parts) == {parts[n] : n \in {m \in DOMAIN parts :
                            /\ parts[m] \notin stopwords
                            /\ Len(parts[m]) >= MinKeywordLength}}
    IN UNION {Kept(split(replace(lower(extraction_schema[n][1]), "_", " ")))
                \cup Kept(split(lower(extraction_schema[n][2])))
              : n \in DOMAIN extraction_schema}

\* seq[:n] for n >= 0
Take(seq, n) == SubSeq(seq, 1, IF n < Len(seq) THEN n ELSE Len(seq))

filter_layout_by_keywords_open_fallback(layout_text, extraction_schema, max_lines) ==
    IF extraction_schema = <<>> \/ max_lines = 0 THEN layout_text
    ELSE
    LET kws == keywords(extraction_schema)
        lines == split_on(layout_text, "\n")
        Relevant(line) == \E keyword \in kws : Contains(lower(line), keyword)
        relevant_lines == SelectSeq(lines, Relevant)
    IN IF kws = {} \/ relevant_lines = <<>> THEN layout_text
       ELSE Join("\n", Take(relevant_lines, max_lines))

\* filter_layout_by_keywords for max_lines >= 0
filter_layout_by_keywords(layout_text, extraction_schema, max_lines) ==
    IF extraction_schema = <<>> \/ max_lines = 0 THEN layout_text
    ELSE
    LET kws == keywords(extraction_schema)
        lines == split_on(layout_text, "\n")
        Relevant(line) == \E keyword \in kws : Contains(lower(line), keyword)
        relevant_lines == SelectSeq(lines, Relevant)
    IN IF kws = {} THEN Join("\n", Take(lines, max_lines))
       ELSE IF relevant_lines = <<>> THEN Join("\n", Take(lines, max_lines))
       ELSE Join("\n", Take(relevant_lines, max_lines))

\* layout texts of zero to four lines, with and without the keywords, in
\* both letter cases
FilterTexts ==
    {"", "Nome: JOAO", "x\ny\nz", "a\n", "OAB 123\nNome: JOAO",
     "OAB 123\nNOME: JOAO\nnome social\nrg 9", "NOME\nnome\nNoMe\nabc",
     "numero 7\n\nNome A\nNumero 8"}

\* schemas with no field, with keywords, and with nothing but stopwords and
\* short parts
FilterSchemas ==
    {SchemaEmpty, SchemaNome, SchemaTwo, << <<"x_y", "do da de">> >>,
     << <<"nome_social", "Numero OAB">> >>}

MaxLines == 3

InitFilter ==
    /\ settings = Settings(DefaultMaxConcurrentExtractions, PyNone, PyNone)
    /\ cache = <<>>
    /\ AtRest
    /\ \E layout_text \in FilterTexts, extraction_schema \in FilterSchemas,
          max_lines \in 0 .. MaxLines :
          frame = [pc |-> "called", fn |-> "filter_layout_by_keywords",
                   layout_text |-> layout_text,
                   extraction_schema |-> extraction_schema,
                   max_lines |-> max_lines]

Filter ==
    /\ frame.pc = "called"
    /\ frame.fn = "filter_layout_by_keywords"
    /\ frame' = [pc |-> "returned", fn |-> frame.fn,
                 layout_text |-> frame.layout_text,
                 extraction_schema |-> frame.extraction_schema,
                 max_lines |-> frame.max_lines,
                 ret |-> filter_layout_by_keywords(frame.layout_text,
                             frame.extraction_schema, frame.max_lines)]
    /\ UNCHANGED <<settings, cache, restVars>>

NextFilter == Filter

SpecFilter == InitFilter /\ [][NextFilter]_vars

\* the lines of a text that contain a keyword of the schema, by position
Matching(layout_text, extraction_schema) ==
    LET lines == split_on(layout_text, "\n") IN
    {n \in DOMAIN lines : \E keyword \in keywords(extraction_schema) :
                              Contains(lower(lines[n]), keyword)}

\* the n-th smallest member of a set of positions
Nth(S, n) == CHOOSE m \in S : Cardinality({x \in S : x < m}) = n - 1

\* C21: filter_layout_by_keywords returns the text unchanged for an empty
\* schema or max_lines = 0; otherwise the first max_lines lines that contain
\* a keyword, in their order, when there is such a line, and the first
\* max_lines raw lines when there is none; never more than max_lines lines.
C21_KeywordFilter ==
    (frame.fn = "filter_layout_by_keywords" /\ frame.pc = "returned") =>
        LET lines == split_on(frame.layout_text, "\n")
            kept == split_on(frame.ret, "\n")
            M == Matching(frame.layout_text, frame.extraction_schema)
            cap == frame.max_lines
            Least(a, b) == IF a < b THEN a ELSE b
        IN IF frame.extraction_schema = <<>> \/ cap = 0
           THEN frame.ret = frame.layout_text
           ELSE /\ Len(kept) <= cap
                /\ IF M # {}
                   THEN /\ Len(kept) = Least(cap, Cardinality(M))
                        /\ \A n \in DOMAIN kept : kept[n] = lines[Nth(M, n)]
                   ELSE /\ Len(kept) = Least(cap, Len(lines))
                        /\ \A n \in DOMAIN kept : kept[n] = lines[n]

\* a call that dropped a line without keyword and cut the matching lines
\* to the cap
C21_Witness ==
    /\ frame.fn = "filter_layout_by_keywords"
    /\ frame.pc = "returned"
    /\ frame.layout_text = "OAB 123\nNOME: JOAO\nnome social\nrg 9"
    /\ frame.extraction_schema = SchemaNome
    /\ frame.max_lines = 1
    /\ frame.ret = "NOME: JOAO"


(***************************************************************************)
(* Properties of the result trace and of the cache under concurrent        *)
(* callers (checked under Spec)                                            *)
(***************************************************************************)
\* the members of a list
Members(seq) == {seq[n] : n \in DOMAIN seq}

\* an invocation that returned a result it computed itself
Fresh(p) == inv[p].pc = "returned" /\ ~inv[p].found

\* an invocation whose field extractor failed as a whole
TotalFailure(p) ==
    /\ inv[p].llm_results # <<>>
    /\ \A n \in DOMAIN inv[p].llm_results :
           "error" \in DOMAIN inv[p].llm_results[n][2].details

\* C22: in a freshly computed result the trace partitions the fields: a
\* field with a truthy value is in llm_resolved and not in unresolved, a
\* field with a null or empty value is in unresolved and not in
\* llm_resolved, no name is listed twice, and the two lists hold the keys of
\* fields and nothing else; after a total failure of the field extractor
\* every field is null and unresolved.
C22_TracePartition ==
    \A p \in Slots : Fresh(p) =>
        LET fields == inv[p].result.fields
            trace == inv[p].result.meta.trace
        IN /\ Members(trace.llm_resolved) \cap Members(trace.unresolved) = {}
           /\ Members(trace.llm_resolved) \cup Members(trace.unresolved)
                  = Members(FieldNames(fields))
           /\ Len(trace.llm_resolved) + Len(trace.unresolved) = Len(fields)
           /\ \A n \in DOMAIN fields :
                  /\ fields[n][1] \in Members(trace.llm_resolved)
                         <=> Truthy(fields[n][2])
                  /\ fields[n][1] \in Members(trace.unresolved)
                         <=> (fields[n][2] = PyNone \/ fields[n][2] = PyStr(""))
           /\ TotalFailure(p) =>
                  /\ \A n \in DOMAIN fields : fields[n][2] = PyNone
                  /\ trace.unresolved = FieldNames(fields)
                  /\ trace.llm_resolved = <<>>

\* a fresh result with one field resolved and the other unresolved
C22_Witness ==
    \E p \in Slots :
        /\ Fresh(p)
        /\ inv[p].result.meta.trace.llm_resolved = <<"nome">>
        /\ inv[p].result.meta.trace.unresolved = <<"inscricao">>

(***************************************************************************)
(* Evaluation against ground truth (src/core/evaluation.py). A str is the  *)
(* sequence of its Unicode code points here.                               *)
(***************************************************************************)
\* the code points of the characters under test
CodePoint ==
    [tab |-> 9, newline |-> 10, space |-> 32, digit_zero |-> 48,
     capital_a |-> 65, small_a |-> 97, no_break_space |-> 160,
     capital_a_acute |-> 193, small_a_acute |-> 225, combining_acute |-> 769]

\* unicodedata.normalize("NFKD", ch) for one character
Nfkd(ch) ==
    CASE ch = CodePoint.small_a_acute ->
             <<CodePoint.small_a, CodePoint.combining_acute>>
      [] ch = CodePoint.capital_a_acute ->
             <<CodePoint.capital_a, CodePoint.combining_acute>>
      [] ch = CodePoint.no_break_space -> <<CodePoint.space>>
      [] OTHER -> <<ch>>

\* unicodedata.combining(ch) # 0: U+0300..U+036F are combining marks, but
\* for U+034F
combining(ch) == ch \in 768 .. 879 /\ ch # 847

\* unicodedata.normalize("NFKD", text): the decompositions, concatenated
normalize_nfkd(text) ==
    LET RECURSIVE go(_)
        go(n) == IF n > Len(text) THEN <<>> ELSE Nfkd(text[n]) \o go(n + 1)
    IN go(1)

\* a decomposition that keeps the combining marks
strip_accents_keeps_marks(text) == normalize_nfkd(text)

\* _strip_accents: decompose, then drop the combining marks
strip_accents(text) ==
    LET normalized == normalize_nfkd(text)
    IN SelectSeq(normalized, LAMBDA ch : ~combining(ch))

\* str.lower() for one character of Basic Latin or Latin-1
lower_char(ch) ==
    IF ch \in 65 .. 90 \/ (ch \in 192 .. 222 /\ ch # 215) THEN ch + 32 ELSE ch

\* str.isspace(), which \s and str.strip() share, up to U+00FF
isspace(ch) == ch \in (9 .. 13) \cup (28 .. 32) \cup {133, 160}

\* _WHITESPACE_RE.sub(" ", text): every run of whitespace becomes one space
collapse_whitespace(text) ==
    LET RECURSIVE go(_, _)
        go(n, in_run) ==
            IF n > Len(text) THEN <<>>
            ELSE IF isspace(text[n])
            THEN (IF in_run THEN <<>> ELSE <<CodePoint.space>>) \o go(n + 1, TRUE)
            ELSE <<text[n]>> \o go(n + 1, FALSE)
    IN go(1, FALSE)

\* str.strip()
strip(text) ==
    LET RECURSIVE lstrip(_)
        lstrip(x) == IF x # <<>> /\ isspace(Head(x)) THEN lstrip(Tail(x)) ELSE x
        RECURSIVE rstrip(_)
        rstrip(x) == IF x # <<>> /\ isspace(x[Len(x)])
                     THEN rstrip(SubSeq(x, 1, Len(x) - 1)) ELSE x
    IN rstrip(lstrip(text))

PyBool(b) == [t |-> "bool", v |-> b]

\* str(n) for an int n >= 0
str_int(n) ==
    LET RECURSIVE digits(_)
        digits(m) == (IF m >= 10 THEN digits(m \div 10) ELSE <<>>)
                     \o <<CodePoint.digit_zero + (m % 10)>>
    IN digits(n)

\* normalize_value for None, bool, int and str values
normalize_value(value) ==
    IF value = PyNone THEN <<>>
    ELSE IF value.t = "bool"
    THEN (IF value.v THEN <<116, 114, 117, 101>> ELSE <<102, 97, 108, 115, 101>>)
    ELSE IF value.t = "int" THEN strip(str_int(value.v))
    ELSE LET text == strip_accents(value.v)
             lowered == [n \in 1 .. Len(text) |-> lower_char(text[n])]
         IN strip(collapse_whitespace(lowered))

values_match(expected, predicted) ==
    IF expected = PyNone
    THEN predicted = PyNone \/ normalize_value(predicted) = <<>>
    ELSE normalize_value(expected) = normalize_value(predicted)

\* the characters of the values under test: a letter in both cases, bare
\* and accented, the combining accent, and three kinds of whitespace
NormAlphabet ==
    {CodePoint.small_a, CodePoint.capital_a, CodePoint.small_a_acute,
     CodePoint.capital_a_acute, CodePoint.combining_acute, CodePoint.space,
     CodePoint.tab, CodePoint.no_break_space}

MaxChars == 3

\* the strings of at most n characters
Texts(n) == UNION {[1 .. m -> NormAlphabet] : m \in 0 .. n}

\* the same letter in the other case, and with or without its accent
OtherCase(ch) ==
    CASE ch = CodePoint.small_a -> CodePoint.capital_a
      [] ch = CodePoint.capital_a -> CodePoint.small_a
      [] ch = CodePoint.small_a_acute -> CodePoint.capital_a_acute
      [] ch = CodePoint.capital_a_acute -> CodePoint.small_a_acute
      [] OTHER -> ch

OtherAccent(ch) ==
    CASE ch = CodePoint.small_a -> CodePoint.small_a_acute
      [] ch = CodePoint.small_a_acute -> CodePoint.small_a
      [] ch = CodePoint.capital_a -> CodePoint.capital_a_acute
      [] ch = CodePoint.capital_a_acute -> CodePoint.capital_a
      [] OTHER -> ch

Spaces == {CodePoint.space, CodePoint.tab, CodePoint.no_break_space}

\* the strings that differ from t in one place by letter case, by a
\* diacritic, or by the whitespace of a run or of an end
Variants(t) ==
    LET Put(n, ch) == [t EXCEPT ![n] = ch]
        Insert(n, ch) == SubSeq(t, 1, n) \o <<ch>> \o SubSeq(t, n + 1, Len(t))
        Delete(n) == SubSeq(t, 1, n - 1) \o SubSeq(t, n + 1, Len(t))
        IsSpaceAt(n) == n \in 1 .. Len(t) /\ t[n] \in Spaces
        \* a place between characters that touches whitespace or an end
        Loose(n) == n = 0 \/ n = Len(t) \/ IsSpaceAt(n) \/ IsSpaceAt(n + 1)
        \* a whitespace character at an end or next to more whitespace
        Spare(n) == /\ IsSpaceAt(n)
                    /\ (n = 1 \/ n = Len(t) \/ IsSpaceAt(n - 1) \/ IsSpaceAt(n + 1))
    IN {Put(n, OtherCase(t[n])) : n \in 1 .. Len(t)}
       \cup {Put(n, OtherAccent(t[n])) : n \in 1 .. Len(t)}
       \cup {Insert(n, CodePoint.combining_acute) : n \in 0 .. Len(t)}
       \cup {Delete(n) : n \in {m \in 1 .. Len(t) :
                                   t[m] = CodePoint.combining_acute}}
       \cup {Put(n, sp) : n \in {m \in 1 .. Len(t) : IsSpaceAt(m)}, sp \in Spaces}
       \cup {Insert(n, sp) : n \in {m \in 0 .. Len(t) : Loose(m)}, sp \in Spaces}
       \cup {Delete(n) : n \in {m \in 1 .. Len(t) : Spare(m)}}

InitNormalize ==
    /\ settings = Settings(DefaultMaxConcurrentExtractions, PyNone, PyNone)
    /\ cache = <<>>
    /\ AtRest
    /\ \E s \in Texts(MaxChars) :
          frame = [pc |-> "called", fn |-> "normalize_value", s |-> s, t |-> s,
                   once |-> <<>>, twice |-> <<>>, other |-> <<>>,
                   match |-> FALSE]

\* the caller takes a second string that differs from the first in one place
Vary ==
    /\ frame.pc = "called"
    /\ frame.fn = "normalize_value"
    /\ frame.t = frame.s
    /\ \E t \in Variants(frame.s) \ {frame.s} : frame' = [frame EXCEPT !.t = t]
    /\ UNCHANGED <<settings, cache, restVars>>

\* normalize_value on s, on its own result and on t; values_match on s and t
Normalize ==
    /\ frame.pc = "called"
    /\ frame.fn = "normalize_value"
    /\ LET once == normalize_value(PyStr(frame.s)) IN
       frame' = [frame EXCEPT !.pc = "returned", !.once = once,
                    !.twice = normalize_value(PyStr(once)),
                    !.other = normalize_value(PyStr(frame.t)),
                    !.match = values_match(PyStr(frame.s), PyStr(frame.t))]
    /\ UNCHANGED <<settings, cache, restVars>>

NextNormalize == Vary \/ Normalize

SpecNormalize == InitNormalize /\ [][NextNormalize]_vars

\* C24: normalize_value applied to its own result for a string returns that
\* result, and two strings that differ only by a diacritic, by letter case
\* or by the whitespace of a run or of an end have the same normal form and
\* satisfy values_match.
C24_NormalizeIdempotent ==
    (frame.fn = "normalize_value" /\ frame.pc = "returned") =>
        /\ frame.twice = frame.once
        /\ frame.other = frame.once
        /\ frame.match

\* " A-acute " against " A-acute": an accented upper-case letter between
\* spaces and the same without the trailing space, both normalized to "a"
C24_Witness ==
    /\ frame.fn = "normalize_value"
    /\ frame.pc = "returned"
    /\ frame.s = <<CodePoint.space, CodePoint.capital_a_acute, CodePoint.space>>
    /\ frame.t = <<CodePoint.space, CodePoint.capital_a_acute>>
    /\ frame.once = <<CodePoint.small_a>>

\* `name in d` and d[name] for a dict kept as a list of (key, value) pairs
DictHas(d, name) == \E n \in DOMAIN d : d[n][1] = name

DictGet(d, name) == d[CHOOSE n \in DOMAIN d : d[n][1] = name][2]

\* d.keys()
DictKeys(d) == [n \in DOMAIN d |-> d[n][1]]

\* sorted(S) for a set of field names
sorted_names(S) ==
    LET RECURSIVE srt(_)
        srt(rest) == IF rest = {} THEN <<>>
                     ELSE LET first == CHOOSE x \in rest :
                                           \A y \in rest : KeyRank(x) <= KeyRank(y)
                          IN <<first>> \o srt(rest \ {first})
    IN srt(S)

\* _compute_extra_fields
compute_extra_fields(prediction_keys, gt_keys) ==
    sorted_names({prediction_keys[n] : n \in DOMAIN prediction_keys}
                     \ {gt_keys[n] : n \in DOMAIN gt_keys})

\* _seconds_to_ms for None or a whole number of seconds
seconds_to_ms(value) == IF value = PyNone THEN PyNone ELSE PyInt(value.v * 1000)

FieldMismatch(field, expected, predicted) ==
    [field |-> field, expected |-> expected, predicted |-> predicted]

DocumentEvaluation(label, pdf_path, prediction, gt, has_gt, evaluated, accuracy, fields_total, fields_correct, correct_fields, wrong_fields, missing_fields, extra_fields, time_ms, error) ==
    [label |-> label, pdf_path |-> pdf_path, prediction |-> prediction,
     gt |-> gt, has_gt |-> has_gt, evaluated |-> evaluated,
     accuracy |-> accuracy, fields_total |-> fields_total,
     fields_correct |-> fields_correct, correct_fields |-> correct_fields,
     wrong_fields |-> wrong_fields, missing_fields |-> missing_fields,
     extra_fields |-> extra_fields, time_ms |-> time_ms, error |-> error]

\* a / b as Python computes it for ints, kept as the exact ratio
Ratio(a, b) == [num |-> a, den |-> b]

classify_absent_as_correct(field_name, expected_value, prediction) ==
    IF ~DictHas(prediction, field_name) THEN "correct"
    ELSE IF values_match(expected_value, DictGet(prediction, field_name))
    THEN "correct" ELSE "wrong"

\* the body of the loop over the ground truth: where one field goes
classify(field_name, expected_value, prediction) ==
    IF ~DictHas(prediction, field_name) THEN "missing"
    ELSE IF values_match(expected_value, DictGet(prediction, field_name))
    THEN "correct" ELSE "wrong"

\* an Optional[Dict[str, Any]] that is a dict
PyDict(d) == [t |-> "dict", v |-> d]

\* `ground_truth or {}`
OrEmpty(ground_truth) == IF ground_truth = PyNone THEN <<>> ELSE ground_truth.v

evaluate_document(label, pdf_path, prediction, ground_truth, time_seconds, error) ==
    LET gt == OrEmpty(ground_truth)
        has_gt == ground_truth # PyNone
        fields_total == Len(gt)
    IN
    IF error # PyNone
    THEN DocumentEvaluation(label, pdf_path, prediction, ground_truth, has_gt,
             FALSE, PyNone, fields_total, 0, <<>>, <<>>, <<>>, <<>>,
             seconds_to_ms(time_seconds), error)
    ELSE IF ~has_gt \/ fields_total = 0
    THEN DocumentEvaluation(label, pdf_path, prediction, ground_truth, has_gt,
             FALSE, PyNone, fields_total, 0, <<>>, <<>>, <<>>,
             compute_extra_fields(DictKeys(prediction), <<>>),
             seconds_to_ms(time_seconds), PyNone)
    ELSE
    LET Kind(pair) == classify(pair[1], pair[2], prediction)
        correct == SelectSeq(gt, LAMBDA pair : Kind(pair) = "correct")
        wrong == SelectSeq(gt, LAMBDA pair : Kind(pair) = "wrong")
        missing == SelectSeq(gt, LAMBDA pair : Kind(pair) = "missing")
        fields_correct == Len(correct)
    IN DocumentEvaluation(label, pdf_path, prediction, ground_truth, has_gt,
           TRUE,
           IF fields_total # 0 THEN Ratio(fields_correct, fields_total) ELSE PyNone,
           fields_total, fields_correct,
           DictKeys(correct),
           [n \in DOMAIN wrong |->
               FieldMismatch(wrong[n][1], wrong[n][2],
                             DictGet(prediction, wrong[n][1]))],
           DictKeys(missing),
           compute_extra_fields(DictKeys(prediction), DictKeys(gt)),
           seconds_to_ms(time_seconds), PyNone)


\* the values of the dicts under test: null, empty, two spellings of one
\* text, and another text
EvalValues ==
    {PyNone, PyStr(<<>>), PyStr(<<CodePoint.small_a>>),
     PyStr(<<CodePoint.capital_a_acute, CodePoint.space>>),
     PyStr(<<CodePoint.small_a, CodePoint.small_a>>)}

\* the dicts with the given keys, in every insertion order, at most two keys
Dicts(names) ==
    {<<>>}
    \cup {<< <<k, v>> >> : k \in names, v \in EvalValues}
    \cup {d \in {<< <<k1, v1>>, <<k2, v2>> >> :
                     k1 \in names, k2 \in names, v1 \in EvalValues,
                     v2 \in EvalValues} : d[1][1] # d[2][1]}

GroundTruths == {PyNone} \cup {PyDict(d) : d \in Dicts({"nome", "inscricao"})}

\* predictions: "rg" is never asked for; one insertion order per key set
Predictions ==
    {d \in Dicts({"nome", "inscricao", "rg"}) :
        Len(d) < 2 \/ KeyRank(d[1][1]) < KeyRank(d[2][1])}

InitEvaluate ==
    /\ settings = Settings(DefaultMaxConcurrentExtractions, PyNone, PyNone)
    /\ cache = <<>>
    /\ AtRest
    /\ \E prediction \in Predictions, ground_truth \in GroundTruths,
          time_seconds \in {PyNone, PyInt(2)},
          error \in {PyNone, PyStr("boom")} :
          frame = [pc |-> "called", fn |-> "evaluate_document",
                   prediction |-> prediction, ground_truth |-> ground_truth,
                   time_seconds |-> time_seconds, error |-> error]

Evaluate ==
    /\ frame.pc = "called"
    /\ frame.fn = "evaluate_document"
    /\ frame' = [pc |-> "returned", fn |-> frame.fn,
                 prediction |-> frame.prediction,
                 ground_truth |-> frame.ground_truth,
                 time_seconds |-> frame.time_seconds, error |-> frame.error,
                 ret |-> evaluate_document("oab", "a.pdf", frame.prediction,
                             frame.ground_truth, frame.time_seconds, frame.error)]
    /\ UNCHANGED <<settings, cache, restVars>>

NextEvaluate == Evaluate

SpecEvaluate == InitEvaluate /\ [][NextEvaluate]_vars

\* a call of evaluate_document that returned
Evaluated == frame.fn = "evaluate_document" /\ frame.pc = "returned"

\* the call had no error and a ground truth with at least one field
Gradable ==
    /\ frame.error = PyNone
    /\ frame.ground_truth # PyNone
    /\ frame.ground_truth.v # <<>>

\* a prediction without the fields the ground truth does not ask for
WithoutExtra(prediction, ground_truth) ==
    SelectSeq(prediction, LAMBDA pair : DictHas(ground_truth, pair[1]))

\* C23: evaluate_document without error and with at least one ground-truth
\* field puts every ground-truth field in exactly one of correct, wrong
\* (with the expected and the predicted value) and missing (not in the
\* prediction), so that the three counts add up to fields_total, and
\* accuracy is fields_correct / fields_total; fields of the prediction
\* alone are listed as extra and leave accuracy as it is. With an error, no
\* ground truth or an empty one, evaluated is false and accuracy null.
C23_EvaluateDocument ==
    Evaluated =>
        LET r == frame.ret
            gt == OrEmpty(frame.ground_truth)
            prediction == frame.prediction
            Wrong == {r.wrong_fields[n].field : n \in DOMAIN r.wrong_fields}
            Correct == Members(r.correct_fields)
            Missing == Members(r.missing_fields)
        IN IF Gradable
           THEN /\ r.evaluated
                /\ r.fields_total = Len(gt)
                /\ \A n \in DOMAIN gt :
                       LET f == gt[n][1] IN
                       /\ Cardinality({S \in {Correct, Wrong, Missing} : f \in S}) = 1
                       /\ f \in Missing <=> ~DictHas(prediction, f)
                       /\ f \in Correct <=>
                              /\ DictHas(prediction, f)
                              /\ values_match(gt[n][2], DictGet(prediction, f))
                /\ Correct \cup Wrong \cup Missing = Members(DictKeys(gt))
                /\ \A n \in DOMAIN r.wrong_fields :
                       LET w == r.wrong_fields[n] IN
                       /\ w.expected = DictGet(gt, w.field)
                       /\ w.predicted = DictGet(prediction, w.field)
                /\ Len(r.correct_fields) + Len(r.wrong_fields)
                       + Len(r.missing_fields) = r.fields_total
                /\ r.fields_correct = Len(r.correct_fields)
                /\ r.accuracy # PyNone
                /\ r.accuracy.num * r.fields_total
                       = r.fields_correct * r.accuracy.den
                /\ Members(r.extra_fields)
                       = Members(DictKeys(prediction)) \ Members(DictKeys(gt))
                /\ r.accuracy
                       = evaluate_document("oab", "a.pdf",
                             WithoutExtra(prediction, gt), frame.ground_truth,
                             frame.time_seconds, frame.error).accuracy
           ELSE /\ ~r.evaluated
                /\ r.accuracy = PyNone

\* a document with one correct and one missing field and an extra field in
\* the prediction
C23_Witness ==
    /\ Evaluated
    /\ frame.ret.correct_fields = <<"nome">>
    /\ frame.ret.missing_fields = <<"inscricao">>
    /\ frame.ret.extra_fields = <<"rg">>
    /\ frame.ret.accuracy = Ratio(1, 2)


(***************************************************************************)
(* The batch orchestrator under fair scheduling (src/core/batch.py): as    *)
(* long as some step can be taken, one is taken. The event loop runs the   *)
(* tasks that can run, the executor threads go on (each pipeline           *)
(* invocation terminates), and the consumer keeps asking for the next      *)
(* element.                                                                *)
(***************************************************************************)
\* the pipeline run of task i can take its extraction step: what
\* ENABLED <<InBatch(Compute(i, BatchEnv))>>_vars says
Computing(i) == i \in Indices /\ task[i].pc = "running" /\ inv[i].pc = "compute"

\* weak fairness of the extraction step of every run, with Computing(i) for
\* its enabledness
ComputeFairness ==
    \A i \in Slots :
        <>[]Computing(i) => []<><<InBatch(Compute(i, BatchEnv))>>_vars

\* the event loop runs every task that is ready and the executor's threads
\* run every submitted pipeline invocation to its end
TaskFairness ==
    /\ \A i \in Slots : WF_vars(TaskStart(i))
    /\ \A i \in Slots :
          WF_vars(task[i].pc = "running" /\ InBatch(Lookup(i, BatchEnv)))
    /\ ComputeFairness
    /\ \A i \in Slots :
          WF_vars(task[i].pc = "running" /\ InBatch(Store(i, BatchEnv)))
    /\ \A i \in Slots : WF_vars(ExecutorDone(i))
    /\ WF_vars(TaskFinish)

\* the consumer keeps iterating and the generator runs when it can
GeneratorFairness ==
    /\ WF_vars(GenStart)
    /\ WF_vars(GenYield)
    /\ WF_vars(GenResume)
    /\ WF_vars(GenSummary)
    /\ WF_vars(GenClose)

SpecBatchLive ==
    InitBatch /\ [][NextBatch]_vars /\ TaskFairness /\ GeneratorFairness

\* C25: under fair scheduling, with a consumer that iterates to the end,
\* process_batch_parallel eventually yields the BatchSummary and ends, for
\* every value of max_concurrent_extractions.
C25_BatchTerminates == <>(gen.pc = "closed")


\* with no slot to hand out (asyncio.Semaphore(0)) every task stays queued on
\* the semaphore and the generator stays in its as_completed loop
ZeroSlotsStarve ==
    (settings.max_concurrent_extractions = 0)
        => <>[](gen.pc = "iter" /\ \A i \in Indices : task[i].pc = "waiting")

\* with at least one slot the summary is reached
PositiveSlotsTerminate ==
    (settings.max_concurrent_extractions >= 1) => <>(gen.pc = "closed")


(***************************************************************************)
(* The consumer going away.  generate_sse iterates process_batch_parallel  *)
(* inside the response's task; when the client disconnects that task is    *)
(* cancelled and CancelledError is thrown into the generator at the await  *)
(* it is suspended on (`await coro` or the sleep after a yield).  The      *)
(* tasks as_completed created are tasks of the event loop in their own     *)
(* right: nothing in the generator cancels them.                           *)
(***************************************************************************)
Disconnect ==
    /\ gen.pc \in {"iter", "yielded"}
    /\ gen' = [gen EXCEPT !.pc = "cancelled"]
    /\ UNCHANGED <<settings, cache, inv, items, use_cache, task, semaphore,
                   ready, done, out, finish_order, frame>>

NextDisconnect == NextBatch \/ Disconnect

\* the event loop and the executor stay fair; the consumer may disconnect at
\* any time or never
SpecDisconnect ==
    InitBatch /\ [][NextDisconnect]_vars /\ TaskFairness /\ WF_vars(GenStart)

\* the pipeline run of item i is over
Executed(i) == inv[i].pc \in {"returned", "raised"}

\* C26: once the first element has been asked for, every item's pipeline run
\* is eventually over, whether or not the consumer disconnects.
C26_NoCancellation ==
    [](gen.pc # "created" => <>(\A i \in Indices : Executed(i)))

\* with at least one slot, the items are all run after a disconnect
PositiveSlotsOutliveConsumer ==
    (settings.max_concurrent_extractions >= 1)
        => [](gen.pc = "cancelled" => <>(\A i \in Indices : Executed(i)))


(***************************************************************************)
(* Concurrent invocations and the cache                                    *)
(***************************************************************************)
\* invocation p looked its key up with use_cache set and found nothing
Missed(p) == inv[p].use_cache /\ inv[p].reads = 1 /\ ~inv[p].found

\* invocation q takes its Store step and the store accepts the write
Writes(q) == inv[q].pc = "store" /\ inv'[q].pc = "returned" /\ inv'[q].wrote

\* C27: nothing serialises the invocations of one key.  An invocation that
\* missed calls the field extractor and writes its own result over whatever
\* another invocation stored in the meantime, and returns cache_hit = false.
C27_LastWriteWins ==
    [][\A q \in Callers :
          Missed(q) /\ Writes(q) =>
              /\ inv'[q].llm_calls = 1
              /\ inv'[q].result.meta.cache_hit = FALSE
              /\ inv[q].cache_key \in DOMAIN cache'
              /\ cache'[inv[q].cache_key].by = q
              /\ cache'[inv[q].cache_key].value = json_dumps(inv'[q].result)]_vars

\* two invocations of one key both missed, both called the extractor and both
\* wrote; the entry is the second writer's, not the first one's
C27_Witness ==
    \E p, q \in Callers :
        /\ p # q
        /\ inv[p].pc = "returned" /\ inv[q].pc = "returned"
        /\ inv[p].cache_key = inv[q].cache_key
        /\ Missed(p) /\ Missed(q)
        /\ inv[p].llm_calls = 1 /\ inv[q].llm_calls = 1
        /\ inv[p].wrote /\ inv[q].wrote
        /\ ~inv[p].result.meta.cache_hit /\ ~inv[q].result.meta.cache_hit
        /\ inv[p].result # inv[q].result
        /\ inv[q].cache_key \in DOMAIN cache
        /\ cache[inv[q].cache_key].by = q
        /\ cache[inv[q].cache_key].value = json_dumps(inv[q].result)


\* every field of the result is null
AllNull(fields) == \A n \in DOMAIN fields : fields[n][2] = PyNone

\* C28: a result assembled after a total failure of the field extractor has
\* every field null and is written to the cache like any other (one write,
\* the default TTL); a later invocation that reads that entry returns the
\* same all-null fields with cache_hit = true and calls neither the layout
\* extraction nor the field extractor.
C28_FailureCached ==
    [][\A p \in Callers :
          LET i == inv[p]
              j == inv'[p]
          IN
          /\ (i.pc = "store" /\ j.pc = "returned" /\ TotalFailure(p)) =>
                /\ AllNull(j.result.fields)
                /\ j.result.meta.cache_hit = FALSE
                /\ j.writes = 1
                /\ j.wrote =>
                      /\ i.cache_key \in DOMAIN cache'
                      /\ cache'[i.cache_key] =
                            [value |-> json_dumps(j.result),
                             ttl |-> DefaultTtl, by |-> p]
          /\ (i.pc = "called" /\ j.found /\ j.read_from \in Callers
                /\ TotalFailure(j.read_from)) =>
                /\ j.pc = "returned"
                /\ j.result.meta.cache_hit = TRUE
                /\ j.result.fields = inv[j.read_from].result.fields
                /\ AllNull(j.result.fields)
                /\ j.extract_calls = 0
                /\ j.llm_calls = 0]_vars

\* an invocation served the all-null result another invocation stored after
\* its field extractor had failed as a whole
C28_Witness ==
    \E w, q \in Callers :
        /\ w # q
        /\ inv[w].pc = "returned" /\ TotalFailure(w) /\ inv[w].wrote
        /\ inv[q].pc = "returned" /\ inv[q].use_cache
        /\ inv[q].found /\ inv[q].read_from = w
        /\ inv[q].result.meta.cache_hit
        /\ AllNull(inv[q].result.fields)
        /\ inv[q].llm_calls = 0
        /\ inv[q].cache_key \in DOMAIN cache
        /\ cache[inv[q].cache_key].by = w


\* the step is the cache write of an invocation's result assembly
AssemblyWrite == \E p \in Callers : inv[p].pc = "store" /\ inv'[p].pc = "returned"

\* the step is the expiry of an entry
Expiry ==
    \E key \in DOMAIN cache : cache' = [k \in DOMAIN cache \ {key} |-> cache[k]]

\* C29: the cache changes only when an invocation assembles its result (or
\* an entry expires).  A call that was rejected or that raised has written
\* nothing and its steps leave the cache as it was; a call served from the
\* cache has written nothing and its lookup leaves every entry, value and
\* TTL, as it was.
C29_WriteOnlyAtAssembly ==
    [][/\ cache' # cache => (AssemblyWrite \/ Expiry)
       /\ \A p \in Callers :
             (inv'[p].pc \in {"raised", "rejected"} \/ inv'[p].found) =>
                 /\ inv'[p].writes = 0
                 /\ inv'[p] # inv[p] => cache' = cache]_vars

\* a call that failed in layout extraction while the cache held the entry of
\* an earlier call: the entry is still there and nothing was written for the
\* failed call's key
C29_Witness ==
    /\ inv[SerialCaller].pc = "raised"
    /\ inv[SerialCaller].extract_calls = 1
    /\ inv[SerialCaller].writes = 0
    /\ cache # <<>>
    /\ inv[SerialCaller].cache_key \notin DOMAIN cache
    /\ \A k \in DOMAIN cache : cache[k].ttl = DefaultTtl


(***************************************************************************)
(* Two batch calls and a single /extract call in one process.  Here `gen`, *)
(* `semaphore` and `task` hold one entry per process_batch_parallel call;  *)
(* a task that is "running" is inside `async with semaphore` with its      *)
(* pipeline invocation handed to the executor.  The /extract call is the   *)
(* invocation of slot DirectCaller.                                        *)
(***************************************************************************)
Batches == {1, 2}
BatchIndices == 0 .. MaxItems - 1
DirectCaller == 0

\* every call takes the semaphore of a single process-wide object
SemaphoreOf_shared(b) == 1

\* `semaphore = asyncio.Semaphore(...)` is a local of the call: call b uses
\* the semaphore it created
SemaphoreOf(b) == b

\* the request of the /extract call
DirectArgs == {<<SchemaNome, PyStr("a.pdf"), PyNone>>}

InitPerCall ==
    /\ \E k \in KValues : settings = Settings(k, PyStr("sk-test"), PyNone)
    /\ cache = <<>>
    /\ inv = [p \in Slots |-> IdleInv]
    /\ items = <<>>
    /\ use_cache = TRUE
    /\ task = [b \in Batches |-> [i \in BatchIndices |-> [pc |-> "none"]]]
    /\ semaphore = [b \in Batches |-> [value |-> 0, waiters |-> <<>>]]
    /\ ready = <<>>
    /\ done = <<>>
    /\ gen = [b \in Batches |-> [pc |-> "created"]]
    /\ out = <<>>
    /\ finish_order = <<>>
    /\ frame = NoFrame

\* first __anext__ of call b: its semaphore and its tasks
BatchStart(b) ==
    /\ gen[b].pc = "created"
    /\ IF settings.max_concurrent_extractions < 0
       THEN /\ gen' = [gen EXCEPT ![b].pc = "failed"]
            /\ UNCHANGED <<task, semaphore>>
       ELSE /\ gen' = [gen EXCEPT ![b].pc = "iter"]
            /\ semaphore' = [semaphore EXCEPT ![SemaphoreOf(b)] =
                                [value |-> settings.max_concurrent_extractions,
                                 waiters |-> <<>>]]
            /\ task' = [task EXCEPT ![b] =
                           [i \in BatchIndices |-> [pc |-> "scheduled"]]]
    /\ UNCHANGED <<settings, cache, inv, items, use_cache, ready, done, out,
                   finish_order, frame>>

\* `async with semaphore` of task i of call b: a slot, or the queue
SemaphoreEnter(b, i) ==
    /\ task[b][i].pc = "scheduled"
    /\ LET s == SemaphoreOf(b) IN
       IF Acquirable(semaphore[s])
       THEN /\ semaphore' = [semaphore EXCEPT ![s].value = @ - 1]
            /\ task' = [task EXCEPT ![b][i].pc = "running"]
       ELSE /\ semaphore' = [semaphore EXCEPT ![s].waiters = Append(@, <<b, i>>)]
            /\ task' = [task EXCEPT ![b][i].pc = "waiting"]
    /\ UNCHANGED <<settings, cache, inv, items, use_cache, ready, done, gen,
                   out, finish_order, frame>>

\* the pipeline invocation is over and the task leaves `async with`: the slot
\* goes to the first waiter, or back to the semaphore
SemaphoreExit(b, i) ==
    /\ task[b][i].pc = "running"
    /\ LET s == SemaphoreOf(b) IN
       IF semaphore[s].waiters # <<>>
       THEN LET w == Head(semaphore[s].waiters) IN
            /\ semaphore' = [semaphore EXCEPT ![s].waiters = Tail(@)]
            /\ task' = [task EXCEPT ![b][i].pc = "done",
                                    ![w[1]][w[2]].pc = "running"]
       ELSE /\ semaphore' = [semaphore EXCEPT ![s].value = @ + 1]
            /\ task' = [task EXCEPT ![b][i].pc = "done"]
    /\ UNCHANGED <<settings, cache, inv, items, use_cache, ready, done, gen,
                   out, finish_order, frame>>

NextPerCall ==
    \/ \E b \in Batches : BatchStart(b)
    \/ \E b \in Batches, i \in BatchIndices : SemaphoreEnter(b, i)
    \/ \E b \in Batches, i \in BatchIndices : SemaphoreExit(b, i)
    \/ InBatch(CallOf(DirectCaller, DirectArgs))
    \/ InBatch(Lookup(DirectCaller, BatchEnv))
    \/ InBatch(Compute(DirectCaller, BatchEnv))
    \/ InBatch(Store(DirectCaller, BatchEnv))

SpecPerCall == InitPerCall /\ [][NextPerCall]_vars

\* the tasks of call b whose pipeline invocation is executing
Executing(b) == {i \in BatchIndices : task[b][i].pc = "running"}

\* the /extract call is inside run_extraction
DirectExecuting == inv[DirectCaller].pc \in {"called", "compute", "store"}

\* C30: each batch call is capped by its own semaphore and by nothing else:
\* once call b has started, the free slots of its semaphore are K minus the
\* invocations of call b that are executing, whatever the other call and the
\* /extract call are doing; so each call has at most K executing, and a task
\* waits only while its own call has K executing.
C30_CapPerBatchCall ==
    \A b \in Batches :
        gen[b].pc = "iter" =>
            /\ semaphore[b].value =
                  settings.max_concurrent_extractions - Cardinality(Executing(b))
            /\ Cardinality(Executing(b)) <= settings.max_concurrent_extractions
            /\ \A n \in DOMAIN semaphore[b].waiters :
                  /\ semaphore[b].waiters[n][1] = b
                  /\ task[b][semaphore[b].waiters[n][2]].pc = "waiting"
            /\ (\E i \in BatchIndices : task[b][i].pc = "waiting") =>
                  Cardinality(Executing(b)) = settings.max_concurrent_extractions

\* two calls with K executing each, 2K in all, a task of each call waiting,
\* and the /extract call inside run_extraction at the same time
C30_Witness ==
    /\ settings.max_concurrent_extractions >= 1
    /\ \A b \in Batches :
          /\ Cardinality(Executing(b)) = settings.max_concurrent_extractions
          /\ \E i \in BatchIndices : task[b][i].pc = "waiting"
    /\ DirectExecuting

====
